---- MODULE Spec2Model ----
(***************************************************************************)
(* Baseline: the cross-source signal merge (topicSelector.mergeSignals,    *)
(* findBestMatch, normalizeTitle) and the daily pipeline that calls it     *)
(* (scheduler/runDaily.runDailyPipeline, topicBuilder.buildTopic and the   *)
(* triggers in index.js and routes/admin.js).                              *)
(*                                                                         *)
(* Titles and keys are sequences of one-character strings, so that         *)
(* normalizeTitle is computed as the code computes it.  Numeric signals    *)
(* are fixed-point integers: divisiveness scores are in hundredths, a      *)
(* trends score is the raw 0..100 value (google_score * 100), and a        *)
(* composite score is 300000 times the composite.  Every quantity of the   *)
(* program is non-negative; the two negative values stand for the          *)
(* JavaScript values undefined and NaN.                                    *)
(***************************************************************************)
EXTENDS Integers, Sequences, FiniteSets, TLC

VARIABLES
    \* ---- one mergeSignals call ----
    redditCandidates,   \* argument 1: sequence of reddit candidates
    googleTrends,       \* argument 2: sequence of google trends candidates
    youtubeCandidates,  \* argument 3: sequence of youtube candidates
    candidates,         \* the Map `candidates`: entries in insertion order
    pc,                 \* position in mergeSignals
    idx,                \* index of the next element of the current for-of loop
    ranked,             \* the returned list
    \* ---- one findBestMatch call ----
    mKey, mMap, mResult, mPc,
    \* ---- the daily pipeline and the database ----
    topics,             \* table topics: rows in insertion order
    trendSignals,       \* table trend_signals
    polls,              \* table polls
    arguments,          \* tables arguments and claims: one row per argument
    runLog,             \* table run_log
    nextTopicId,        \* the AUTOINCREMENT counter of topics
    today,              \* the day new Date() falls on
    runs,               \* the runDailyPipeline invocations
    \* ---- two mergeSignals calls in flight ----
    calls,              \* per call: its arguments, its Map, its position, its result
    \* ---- the HTTP server ----
    adminSecret,        \* process.env.ADMIN_SECRET
    request,            \* the request last received
    response,           \* the status code it was answered with
    \* ---- one call of a scraper's scoring or normalizing function ----
    fn, fnArgs, fnResult, fnPc,
    \* ---- processors/claimTreeBuilder in one server process ----
    feedCache,          \* the module variable _feedCache: 0 is null
    feedsPublished,     \* the edition of the feeds the fact-checkers serve
    treeCalls,          \* the buildClaimTree calls of the process
    \* ---- the background loop of POST /api/admin/backfill ----
    backfill            \* the locals of the loop

mergeVars == <<redditCandidates, googleTrends, youtubeCandidates, candidates, pc, idx, ranked>>
matchVars == <<mKey, mMap, mResult, mPc>>
dbVars == <<topics, trendSignals, polls, arguments, runLog, nextTopicId>>
pipeVars == <<dbVars, today, runs>>
callVars == <<calls>>
httpVars == <<adminSecret, request, response>>
scraperVars == <<fn, fnArgs, fnResult, fnPc>>
feedVars == <<feedCache, feedsPublished, treeCalls>>
backfillVars == <<backfill>>
vars == <<mergeVars, matchVars, pipeVars, callVars, httpVars, scraperVars, feedVars, backfillVars>>

(***************************************************************************)
(* Bounds                                                                  *)
(***************************************************************************)
MaxCandidates == 3      \* candidates in the three input lists together
MaxPool == 2            \* entries of the map handed to findBestMatch alone
MaxRuns == 2            \* runDailyPipeline invocations
MaxDay == 2             \* days the clock passes through

(***************************************************************************)
(* Characters                                                              *)
(***************************************************************************)
Range(s) == {s[k] : k \in DOMAIN s}

Min(S) == CHOOSE x \in S : \A y \in S : x <= y
Max(S) == CHOOSE x \in S : \A y \in S : x >= y

\* the value of a property that an object does not have
Undefined == -2
\* the result of arithmetic on undefined
NaN == -1

\* a defined numeric value: neither undefined nor NaN
isNumber(x) == x >= 0

\* x / 100 in the model's fixed point, where a trends score stays 0..100
div100(x) == IF isNumber(x) THEN x ELSE NaN

UpperChars == <<"A","B","C","D","E","F","G","H","I","J","K","L","M",
                "N","O","P","Q","R","S","T","U","V","W","X","Y","Z">>
LowerChars == <<"a","b","c","d","e","f","g","h","i","j","k","l","m",
                "n","o","p","q","r","s","t","u","v","w","x","y","z">>
DigitChars == <<"0","1","2","3","4","5","6","7","8","9">>
\* what the regular expression class \s matches, among the characters used here
WhitespaceChars == {" ", "\t", "\n"}

UpperSet == Range(UpperChars)
LowerSet == Range(LowerChars)
DigitSet == Range(DigitChars)

LowerOf[c \in UpperSet] == LowerChars[CHOOSE k \in DOMAIN UpperChars : UpperChars[k] = c]

\* String.prototype.toLowerCase
toLowerCase(s) == [k \in DOMAIN s |-> IF s[k] \in UpperSet THEN LowerOf[s[k]] ELSE s[k]]

\* .replace(/[^a-z0-9\s]/g, '')
stripOther(s) == SelectSeq(s, LAMBDA c : c \in LowerSet \cup DigitSet \cup WhitespaceChars)

\* String.prototype.trim
trim(s) ==
    LET solid == {k \in DOMAIN s : s[k] \notin WhitespaceChars}
    IN  IF solid = {} THEN <<>> ELSE SubSeq(s, Min(solid), Max(solid))

\* topicSelector.normalizeTitle
normalizeTitle(title) == trim(stripOther(toLowerCase(title)))

\* String.prototype.split(' '): the pieces between single space characters
RECURSIVE split(_)
split(s) ==
    LET sp == {k \in DOMAIN s : s[k] = " "}
    IN  IF sp = {} THEN <<s>>
        ELSE <<SubSeq(s, 1, Min(sp) - 1)>> \o split(SubSeq(s, Min(sp) + 1, Len(s)))

\* the token-length cutoff of `w.length > 3`
LongWordCutoff == 3

\* new Set(key.split(' ').filter(w => w.length > 3))
longWords(key) == {w \in Range(split(key)) : Len(w) > LongWordCutoff}

(***************************************************************************)
(* findBestMatch                                                           *)
(***************************************************************************)
Max3(a, b, c) == Max({a, b, c})

\* shared: the number of words of keyWords that existingWords has
sharedCount(keyWords, existingWords) == Cardinality(keyWords \cap existingWords)

\* the denominator Math.max(keyWords.size, existingWords.size, 1)
overlapDen(keyWords, existingWords) ==
    Max3(Cardinality(keyWords), Cardinality(existingWords), 1)

\* the threshold taken as overlap >= 0.4
aboveThresholdInclusive(shared, den) == 10 * shared >= 4 * den

\* overlap > 0.4, the overlap being shared / den
aboveThreshold(shared, den) == 10 * shared > 4 * den

\* the comparison taken as overlap >= bestOverlap: the last of equals wins
betterOrEqualToBest(shared, den, bestNum, bestDen) == shared * bestDen >= bestNum * den

\* overlap > bestOverlap, the overlaps being shared / den and bestNum / bestDen
betterThanBest(shared, den, bestNum, bestDen) == shared * bestDen > bestNum * den

\* The for-of loop over map.entries() from entry k on.  The result is the
\* position in the map of the entry whose value is returned; 0 stands for null.
RECURSIVE scanEntries(_, _, _, _, _, _)
scanEntries(keyWords, map, k, bestMatch, bestNum, bestDen) ==
    IF k > Len(map) THEN bestMatch
    ELSE LET existingWords == longWords(map[k].key)
             shared == sharedCount(keyWords, existingWords)
             den == overlapDen(keyWords, existingWords)
         IN  IF aboveThreshold(shared, den) /\ betterThanBest(shared, den, bestNum, bestDen)
             THEN scanEntries(keyWords, map, k + 1, k, shared, den)
             ELSE scanEntries(keyWords, map, k + 1, bestMatch, bestNum, bestDen)

\* a lookup of the key itself in place of the scan for the best overlap
findExactKey(key, map) ==
    IF \E k \in DOMAIN map : map[k].key = key
    THEN CHOOSE k \in DOMAIN map : map[k].key = key
    ELSE 0

findBestMatch(key, map) == scanEntries(longWords(key), map, 1, 0, 0, 1)

(***************************************************************************)
(* The Map `candidates`                                                    *)
(***************************************************************************)
mapHas(map, key) == \E k \in DOMAIN map : map[k].key = key
mapIndex(map, key) == CHOOSE k \in DOMAIN map : map[k].key = key

\* Map.prototype.set: an existing key keeps its place and gets the new value
mapSet(map, key, val) ==
    IF mapHas(map, key)
    THEN [map EXCEPT ![mapIndex(map, key)] = [key |-> key, val |-> val]]
    ELSE Append(map, [key |-> key, val |-> val])

(***************************************************************************)
(* mergeSignals: the body of each of the three loops, for one candidate    *)
(***************************************************************************)
foldReddit(map, r) ==
    mapSet(map, normalizeTitle(r.title),
           [title |-> r.title,
            reddit_divisiveness |-> r.divisiveness_score,
            reddit_comments |-> r.total_comments,
            google_score |-> 0,
            youtube_divisiveness |-> 0,
            sources |-> <<"reddit">>])

\* the trends loop with a new cluster's other slots left unset
foldGoogleNoDefaults(map, g) ==
    LET key == normalizeTitle(g.title)
        match == findBestMatch(key, map)
    IN  IF match # 0
        THEN [map EXCEPT ![match].val.google_score = div100(g.score),
                         ![match].val.sources = Append(@, "google_trends")]
        ELSE mapSet(map, key,
                    [title |-> g.title,
                     reddit_divisiveness |-> Undefined,
                     reddit_comments |-> Undefined,
                     google_score |-> div100(g.score),
                     youtube_divisiveness |-> Undefined,
                     sources |-> <<"google_trends">>])

foldGoogle(map, g) ==
    LET key == normalizeTitle(g.title)
        match == findBestMatch(key, map)
    IN  IF match # 0
        THEN [map EXCEPT ![match].val.google_score = div100(g.score),
                         ![match].val.sources = Append(@, "google_trends")]
        ELSE mapSet(map, key,
                    [title |-> g.title,
                     reddit_divisiveness |-> 0,
                     reddit_comments |-> 0,
                     google_score |-> div100(g.score),
                     youtube_divisiveness |-> 0,
                     sources |-> <<"google_trends">>])

\* the video loop without its else branch: a video joins a cluster or is dropped
foldYoutubeMatchOnly(map, y) ==
    LET key == normalizeTitle(y.title)
        match == findBestMatch(key, map)
    IN  IF match # 0
        THEN [map EXCEPT ![match].val.youtube_divisiveness = y.divisiveness_score,
                         ![match].val.sources = Append(@, "youtube")]
        ELSE map

foldYoutube(map, y) ==
    LET key == normalizeTitle(y.title)
        match == findBestMatch(key, map)
    IN  IF match # 0
        THEN [map EXCEPT ![match].val.youtube_divisiveness = y.divisiveness_score,
                         ![match].val.sources = Append(@, "youtube")]
        ELSE mapSet(map, key,
                    [title |-> y.title,
                     reddit_divisiveness |-> 0,
                     reddit_comments |-> 0,
                     google_score |-> 0,
                     youtube_divisiveness |-> y.divisiveness_score,
                     sources |-> <<"youtube">>])

(***************************************************************************)
(* mergeSignals: composite score, sort, slice                              *)
(***************************************************************************)
\* composite scores are kept as integers: 300000 times the composite
EngagementCap == 5000
TopN == 20

MinOf(a, b) == IF a < b THEN a ELSE b

\* Math.min(c.sources.length / 3, 1), times 3
multiPlatform3(c) == MinOf(Len(c.sources), 3)

\* engagementScore * 0.35 + google_score * 0.25 + multiPlatform * 0.20
\*   + reddit_divisiveness * 0.20, times 300000; NaN when an operand is
\* undefined or NaN
compositeScore(c) ==
    IF isNumber(c.reddit_comments) /\ isNumber(c.google_score) /\ isNumber(c.reddit_divisiveness)
    THEN   21 * MinOf(c.reddit_comments, EngagementCap)
         + 750 * c.google_score
         + 20000 * multiPlatform3(c)
         + 600 * c.reddit_divisiveness
    ELSE NaN

withComposite(c) ==
    [title |-> c.title,
     reddit_divisiveness |-> c.reddit_divisiveness,
     reddit_comments |-> c.reddit_comments,
     google_score |-> c.google_score,
     youtube_divisiveness |-> c.youtube_divisiveness,
     sources |-> c.sources,
     composite_score |-> compositeScore(c)]

\* Array.from(candidates.values()).map(...)
scoredOf(map) == [k \in DOMAIN map |-> withComposite(map[k].val)]

\* the comparator (a, b) => b.composite_score - a.composite_score is positive:
\* b sorts before a.  A NaN result is taken as 0 by Array.prototype.sort.
comparatorPositive(a, b) ==
    /\ isNumber(a.composite_score) /\ isNumber(b.composite_score)
    /\ b.composite_score > a.composite_score

\* insertion of x into a list sorted by non-increasing composite_score, after
\* every element that does not sort after it (Array.prototype.sort is stable)
RECURSIVE insertSorted(_, _)
insertSorted(sorted, x) ==
    IF sorted = <<>> THEN <<x>>
    ELSE IF ~comparatorPositive(Head(sorted), x)
         THEN <<Head(sorted)>> \o insertSorted(Tail(sorted), x)
         ELSE <<x>> \o sorted

RECURSIVE sortFrom(_, _, _)
sortFrom(list, k, acc) ==
    IF k > Len(list) THEN acc ELSE sortFrom(list, k + 1, insertSorted(acc, list[k]))

\* the list left in the order of insertion into the pool
keepInsertionOrder(list) == list

\* scored.sort((a, b) => b.composite_score - a.composite_score)
sortByComposite(list) == sortFrom(list, 1, <<>>)

\* .slice(0, 20)
sliceTop(list) == SubSeq(list, 1, MinOf(Len(list), TopN))

rankOf(map) == sliceTop(sortByComposite(scoredOf(map)))

\* The comparator is consistent on the list: no composite_score is NaN, or the
\* defined ones are all equal (a NaN compares as equal to everything).
comparatorConsistent(list) ==
    \/ \A k \in DOMAIN list : isNumber(list[k].composite_score)
    \/ \A j, k \in DOMAIN list :
          (isNumber(list[j].composite_score) /\ isNumber(list[k].composite_score))
          => list[j].composite_score = list[k].composite_score

\* what Array.prototype.sort may leave: the stable order when the comparator is
\* consistent, an implementation-defined order otherwise
sortOutcomes(list) ==
    IF comparatorConsistent(list) THEN {sortByComposite(list)}
    ELSE {[k \in DOMAIN list |-> list[f[k]]] : f \in Permutations(DOMAIN list)}

\* the returned list in any order, as a sort that is not a function of its input
rankAnyOrder(map) ==
    {sliceTop([k \in DOMAIN map |-> scoredOf(map)[f[k]]]) : f \in Permutations(DOMAIN map)}

rankOutcomes(map) == {sliceTop(l) : l \in sortOutcomes(scoredOf(map))}

(***************************************************************************)
(* Inputs                                                                  *)
(***************************************************************************)
SP == <<" ">>
tAB == <<"A","a","a","a">> \o SP \o <<"B","b","b","b">>
tBA == <<"b","b","b","b">> \o SP \o <<"a","a","a","a","!">>
tACD == <<"a","a","a","a">> \o SP \o <<"c","c","c","c">> \o SP \o <<"d","d","d","d">>
tABCD == <<"a","a","a","a">> \o SP \o <<"b","b","b","b">> \o SP
         \o <<"c","c","c","c">> \o SP \o <<"d","d","d","d">>
tShort == <<"a","b">>
tBang == <<"!">>
tQuery == <<"?","!">>

Titles == {tAB, tBA, tACD, tABCD, tShort, tBang, tQuery}

RedditInputs == [title : Titles, divisiveness_score : {80}, total_comments : {1000}]
GoogleInputs == [title : Titles, score : {30, 90}]
YoutubeInputs == [title : Titles, divisiveness_score : {50}]

(***************************************************************************)
(* Specification of one mergeSignals call                                  *)
(***************************************************************************)
\* no second call in flight, no request received
CallsIdle == calls = <<>>
NoRequest ==
    [seq |-> 0, method |-> "", path |-> "", authorization |-> <<>>, slug |-> <<>>,
     start_date |-> Undefined, end_date |-> Undefined]
HttpIdle == adminSecret = <<>> /\ request = NoRequest /\ response = 0

MatchIdle == mKey = <<>> /\ mMap = <<>> /\ mResult = 0 /\ mPc = "idle"

PipeIdle ==
    /\ topics = <<>> /\ trendSignals = <<>> /\ polls = <<>> /\ arguments = <<>>
    /\ runLog = <<>> /\ nextTopicId = 1 /\ today = 1 /\ runs = <<>>

\* no scraper function called, no claim tree built, no backfill requested
ScrapersIdle == fn = "" /\ fnArgs = <<>> /\ fnResult = 0 /\ fnPc = "idle"
FeedsIdle == feedCache = 0 /\ feedsPublished = 0 /\ treeCalls = <<>>
NoBackfill == [pc |-> "none"]
BackfillIdle == backfill = NoBackfill

InitMerge ==
    /\ \E n1 \in 0..MaxCandidates :
         \E n2 \in 0..(MaxCandidates - n1) :
           \E n3 \in 0..(MaxCandidates - n1 - n2) :
             /\ redditCandidates \in [1..n1 -> RedditInputs]
             /\ googleTrends \in [1..n2 -> GoogleInputs]
             /\ youtubeCandidates \in [1..n3 -> YoutubeInputs]
    /\ candidates = <<>>
    /\ pc = "reddit"
    /\ idx = 1
    /\ ranked = <<>>

Init == InitMerge /\ MatchIdle /\ PipeIdle /\ CallsIdle /\ HttpIdle /\ ScrapersIdle /\ FeedsIdle /\ BackfillIdle

\* for (const r of redditCandidates) { ... }
RedditStep ==
    /\ pc = "reddit" /\ idx <= Len(redditCandidates)
    /\ candidates' = foldReddit(candidates, redditCandidates[idx])
    /\ idx' = idx + 1
    /\ UNCHANGED <<redditCandidates, googleTrends, youtubeCandidates, pc, ranked, matchVars, pipeVars, callVars, httpVars, scraperVars, feedVars, backfillVars>>

RedditDone ==
    /\ pc = "reddit" /\ idx > Len(redditCandidates)
    /\ pc' = "google" /\ idx' = 1
    /\ UNCHANGED <<redditCandidates, googleTrends, youtubeCandidates, candidates, ranked, matchVars, pipeVars, callVars, httpVars, scraperVars, feedVars, backfillVars>>

\* for (const g of googleTrends) { ... }
GoogleStep ==
    /\ pc = "google" /\ idx <= Len(googleTrends)
    /\ candidates' = foldGoogle(candidates, googleTrends[idx])
    /\ idx' = idx + 1
    /\ UNCHANGED <<redditCandidates, googleTrends, youtubeCandidates, pc, ranked, matchVars, pipeVars, callVars, httpVars, scraperVars, feedVars, backfillVars>>

GoogleDone ==
    /\ pc = "google" /\ idx > Len(googleTrends)
    /\ pc' = "youtube" /\ idx' = 1
    /\ UNCHANGED <<redditCandidates, googleTrends, youtubeCandidates, candidates, ranked, matchVars, pipeVars, callVars, httpVars, scraperVars, feedVars, backfillVars>>

\* for (const y of youtubeCandidates) { ... }
YoutubeStep ==
    /\ pc = "youtube" /\ idx <= Len(youtubeCandidates)
    /\ candidates' = foldYoutube(candidates, youtubeCandidates[idx])
    /\ idx' = idx + 1
    /\ UNCHANGED <<redditCandidates, googleTrends, youtubeCandidates, pc, ranked, matchVars, pipeVars, callVars, httpVars, scraperVars, feedVars, backfillVars>>

YoutubeDone ==
    /\ pc = "youtube" /\ idx > Len(youtubeCandidates)
    /\ pc' = "score" /\ idx' = 1
    /\ UNCHANGED <<redditCandidates, googleTrends, youtubeCandidates, candidates, ranked, matchVars, pipeVars, callVars, httpVars, scraperVars, feedVars, backfillVars>>

\* the map over candidates.values(), the sort and the slice; return
ScoreAndRank ==
    /\ pc = "score"
    /\ ranked' \in rankOutcomes(candidates)
    /\ pc' = "done"
    /\ UNCHANGED <<redditCandidates, googleTrends, youtubeCandidates, candidates, idx, matchVars, pipeVars, callVars, httpVars, scraperVars, feedVars, backfillVars>>

Next ==
    \/ RedditStep \/ RedditDone
    \/ GoogleStep \/ GoogleDone
    \/ YoutubeStep \/ YoutubeDone
    \/ ScoreAndRank

Spec == Init /\ [][Next]_vars

(***************************************************************************)
(* mergeSignals as a function of its arguments, the three loops taken in   *)
(* a given order (the code's order is CodeOrder)                           *)
(***************************************************************************)
\* ---- the same call on candidates that may lack a numeric field ----
MaxLoose == 1           \* candidates in each of the three lists

LooseReddit ==
    [title : {tAB, tBang}, divisiveness_score : {80, Undefined}, total_comments : {1000, Undefined}]
LooseGoogle == [title : {tBA, tACD}, score : {30, Undefined}]
LooseYoutube == [title : {tAB, tShort}, divisiveness_score : {50, Undefined}]

InitLoose ==
    /\ \E n1, n2, n3 \in 0..MaxLoose :
         /\ redditCandidates \in [1..n1 -> LooseReddit]
         /\ googleTrends \in [1..n2 -> LooseGoogle]
         /\ youtubeCandidates \in [1..n3 -> LooseYoutube]
    /\ candidates = <<>>
    /\ pc = "reddit"
    /\ idx = 1
    /\ ranked = <<>>
    /\ MatchIdle /\ PipeIdle /\ CallsIdle /\ HttpIdle /\ ScrapersIdle /\ FeedsIdle /\ BackfillIdle

SpecLoose == InitLoose /\ [][Next]_vars

CodeOrder == <<"reddit", "google_trends", "youtube">>

Orders == {o \in [1..3 -> Range(CodeOrder)] : Range(o) = Range(CodeOrder)}

foldOne(source, map, c) ==
    CASE source = "reddit" -> foldReddit(map, c)
      [] source = "google_trends" -> foldGoogle(map, c)
      [] source = "youtube" -> foldYoutube(map, c)

RECURSIVE foldLoop(_, _, _, _)
foldLoop(source, map, list, k) ==
    IF k > Len(list) THEN map
    ELSE LET folded == foldOne(source, map, list[k])
         IN  \* a pool that a candidate was folded into has an entry; the test
             \* has the pool computed before the loop goes on
             IF folded = <<>> THEN folded ELSE foldLoop(source, folded, list, k + 1)

inputOf(source, reddit, google, youtube) ==
    CASE source = "reddit" -> reddit
      [] source = "google_trends" -> google
      [] source = "youtube" -> youtube

poolInOrder(order, reddit, google, youtube) ==
    LET m1 == foldLoop(order[1], <<>>, inputOf(order[1], reddit, google, youtube), 1)
        m2 == foldLoop(order[2], m1, inputOf(order[2], reddit, google, youtube), 1)
    IN  foldLoop(order[3], m2, inputOf(order[3], reddit, google, youtube), 1)

\* mergeSignals(redditCandidates, googleTrends, youtubeCandidates), start to return
mergeSignals(reddit, google, youtube) ==
    rankOf(poolInOrder(CodeOrder, reddit, google, youtube))

(***************************************************************************)
(* Specification of one findBestMatch call                                 *)
(***************************************************************************)
wA == <<"a","a","a","a">>
wB == <<"b","b","b","b">>
wC == <<"c","c","c","c">>
wD == <<"d","d","d","d">>
wE == <<"e","e","e","e">>
wF == <<"f","f","f","f">>
wG == <<"g","g","g","g">>
wH == <<"h","h","h","h">>

kAB == wA \o SP \o wB
kBA == wB \o SP \o wA
kABC == wA \o SP \o wB \o SP \o wC
kABCDE == wA \o SP \o wB \o SP \o wC \o SP \o wD \o SP \o wE
kABFGH == wA \o SP \o wB \o SP \o wF \o SP \o wG \o SP \o wH
kABCGH == wA \o SP \o wB \o SP \o wC \o SP \o wG \o SP \o wH
kShort == <<"a","b">> \o SP \o <<"c","d","e">>
kEmpty == <<>>

MatchKeys == {kAB, kBA, kABC, kABCDE, kABFGH, kABCGH, kShort, kEmpty}

MergeIdle ==
    /\ redditCandidates = <<>> /\ googleTrends = <<>> /\ youtubeCandidates = <<>>
    /\ candidates = <<>> /\ pc = "idle" /\ idx = 1 /\ ranked = <<>>

\* the keys of a Map are distinct; the value of an entry is not read
InitMatch ==
    /\ mKey \in MatchKeys
    /\ \E n \in 0..MaxPool :
         \E keys \in [1..n -> MatchKeys] :
           /\ \A a, b \in 1..n : a # b => keys[a] # keys[b]
           /\ mMap = [k \in 1..n |-> [key |-> keys[k], val |-> keys[k]]]
    /\ mResult = 0
    /\ mPc = "call"
    /\ MergeIdle /\ PipeIdle /\ CallsIdle /\ HttpIdle /\ ScrapersIdle /\ FeedsIdle /\ BackfillIdle

CallFindBestMatch ==
    /\ mPc = "call"
    /\ mResult' = findBestMatch(mKey, mMap)
    /\ mPc' = "done"
    /\ UNCHANGED <<mKey, mMap, mergeVars, pipeVars, callVars, httpVars, scraperVars, feedVars, backfillVars>>

NextMatch == CallFindBestMatch

SpecMatch == InitMatch /\ [][NextMatch]_vars

(***************************************************************************)
(* utils/slugify                                                           *)
(***************************************************************************)
SlugMaxLen == 60

\* .replace(/[^a-z0-9\s-]/g, '')
stripForSlug(s) ==
    SelectSeq(s, LAMBDA c : c \in LowerSet \cup DigitSet \cup WhitespaceChars \cup {"-"})

\* .replace(/\s+/g, '-'): every run of whitespace becomes one hyphen
RECURSIVE hyphenateSpaces(_)
hyphenateSpaces(s) ==
    IF s = <<>> THEN <<>>
    ELSE IF Head(s) \in WhitespaceChars
         THEN IF Len(s) > 1 /\ s[2] \in WhitespaceChars
              THEN hyphenateSpaces(Tail(s))
              ELSE <<"-">> \o hyphenateSpaces(Tail(s))
         ELSE <<Head(s)>> \o hyphenateSpaces(Tail(s))

\* .replace(/-+/g, '-')
RECURSIVE collapseHyphens(_)
collapseHyphens(s) ==
    IF s = <<>> THEN <<>>
    ELSE IF Head(s) = "-" /\ Len(s) > 1 /\ s[2] = "-"
         THEN collapseHyphens(Tail(s))
         ELSE <<Head(s)>> \o collapseHyphens(Tail(s))

slugify(title, date) ==
    LET full == collapseHyphens(hyphenateSpaces(trim(stripForSlug(toLowerCase(title)))))
        base == SubSeq(full, 1, MinOf(Len(full), SlugMaxLen))
    IN  IF date # <<>> THEN base \o <<"-">> \o date ELSE base

\* the YYYY-MM-DD string of a day of the model's calendar (days 1..9)
isoDate(day) == <<"2","0","2","6","-","1","1","-","0", DigitChars[day + 1]>>

(***************************************************************************)
(* db/queries                                                              *)
(***************************************************************************)
\* the same query with the status of a topic still being built
topicExistsAsDraft(date) ==
    \E k \in DOMAIN topics : topics[k].date = date /\ topics[k].status = "draft"

\* SELECT 1 FROM topics WHERE date = ? AND status = 'published'
topicExistsForDate(date) ==
    \E k \in DOMAIN topics : topics[k].date = date /\ topics[k].status = "published"

\* the UNIQUE constraint on topics.slug
slugTaken(slug) == \E k \in DOMAIN topics : topics[k].slug = slug

\* logRun that records only the runs that went past the guard
logRunUnlessSkipped(log, run_date, status, topic_id) ==
    IF status = "skipped" THEN log
    ELSE Append(log, [run_date |-> run_date, status |-> status, topic_id |-> topic_id])

logRun(log, run_date, status, topic_id) ==
    Append(log, [run_date |-> run_date, status |-> status, topic_id |-> topic_id])

(***************************************************************************)
(* scheduler/runDaily.runDailyPipeline, with processors/topicSelector      *)
(* selectTopic / selectTopicForDate and processors/topicBuilder.buildTopic *)
(* run inside it.  One action is the code between two awaits.              *)
(***************************************************************************)
rTop == [title |-> tAB, divisiveness_score |-> 80, total_comments |-> 1000]
gTop == [title |-> tBA, score |-> 90]
yTop == [title |-> tACD, divisiveness_score |-> 50]

\* what a scraper's promise settles to: rejected, or fulfilled with a list
ScrapedReddit == {"rejected", <<>>, <<rTop>>}
ScrapedGoogle == {"rejected", <<>>, <<gTop>>}
ScrapedYoutube == {"rejected", <<>>, <<yTop>>}

\* results.status === 'fulfilled' ? results.value : []
settledValue(res) == IF res = "rejected" THEN <<>> ELSE res

aiGunBan == <<"G","u","n"," ","B","a","n">>
aiGunBan2 == <<"g","u","n"," "," ","b","a","n","!">>
aiTax == <<"T","a","x">>

\* selected_title of the model's reply
AiTitles == {aiGunBan, aiGunBan2, aiTax}

Triggers == {"cron", "admin", "backfill"}

\* how many polls processPollingData returns, how many arguments buildClaimTree
PollCounts == {0, 1}
ArgumentCounts == {2}

\* the 0.5 of signalData.topCandidate?.composite_score ?? 0.5, times 300000
DefaultDivisiveness == 150000

\* the locals of an invocation that the code still reads at its position
IdleRun ==
    [pc |-> "idle", date |-> 0, mode |-> "none",
     reddit |-> <<>>, google |-> <<>>, youtube |-> <<>>, rejected |-> {}, top |-> -1,
     title |-> <<>>, topicId |-> 0, result |-> "none"]

\* a finished invocation: what it returned or threw
doneRun(run, result, topicId) ==
    [IdleRun EXCEPT !.pc = "done", !.date = run.date, !.result = result,
                    !.topicId = topicId]

InitPipeline ==
    /\ topics = <<>> /\ trendSignals = <<>> /\ polls = <<>> /\ arguments = <<>>
    /\ runLog = <<>> /\ nextTopicId = 1
    /\ today = 1
    /\ runs = [p \in 1..MaxRuns |-> IdleRun]
    /\ MergeIdle /\ MatchIdle /\ CallsIdle /\ HttpIdle /\ ScrapersIdle /\ FeedsIdle /\ BackfillIdle

\* The call and the guard.  cron (index.js) and POST /run-daily (admin.js) pass
\* no date; the backfill loop (admin.js) calls with dateStr after it has found
\* no topic for dateStr.
StartRun(p, trigger, overrideDate) ==
    /\ runs[p].pc = "idle"
    /\ \A q \in 1..(p - 1) : runs[q].pc # "idle"
    /\ trigger = "backfill" => ~topicExistsForDate(overrideDate)
    /\ LET date == IF trigger = "backfill" THEN overrideDate ELSE today
           run == [runs[p] EXCEPT !.date = date]
       IN  IF topicExistsForDate(date)
           THEN /\ runLog' = logRun(runLog, date, "skipped", 0)
                /\ runs' = [runs EXCEPT ![p] = doneRun(run, "skipped", 0)]
           ELSE /\ runLog' = runLog
                /\ runs' = [runs EXCEPT ![p] = [run EXCEPT !.pc = "scraping"]]
    /\ UNCHANGED <<topics, trendSignals, polls, arguments, nextTopicId, today, mergeVars, matchVars, callVars, httpVars, scraperVars, feedVars, backfillVars>>

\* the scrapers whose promise rejected
rejectedOf(redditResults, googleResults, youtubeResults) ==
    {src \in {"reddit", "google_trends", "youtube"} :
        \/ src = "reddit" /\ redditResults = "rejected"
        \/ src = "google_trends" /\ googleResults = "rejected"
        \/ src = "youtube" /\ youtubeResults = "rejected"}

\* Phase 2 up to the await of the model's reply, on the three lists of Phase 1
selectFrom(p, reddit, google, youtube, rejected) ==
    LET run == [runs[p] EXCEPT !.reddit = reddit, !.google = google, !.youtube = youtube,
                               !.rejected = rejected]
        allEmpty == Len(reddit) = 0 /\ Len(google) = 0 /\ Len(youtube) = 0
        merged == mergeSignals(reddit, google, youtube)
    IN  IF topicExistsForDate(run.date)
        THEN \* selectTopic / selectTopicForDate return null
             /\ runLog' = logRun(runLog, run.date, "skipped", 0)
             /\ runs' = [runs EXCEPT ![p] = doneRun(run, "skipped", 0)]
        ELSE IF ~allEmpty /\ Len(merged) = 0
        THEN \* throw new Error('No topic candidates found from any source')
             /\ runLog' = logRun(runLog, run.date, "error", 0)
             /\ runs' = [runs EXCEPT ![p] = doneRun(run, "error", 0)]
        ELSE /\ runLog' = runLog
             /\ runs' = [runs EXCEPT ![p] =
                           [run EXCEPT !.pc = "selecting",
                                       !.mode = IF allEmpty THEN "direct" ELSE "ranked",
                                       !.top = IF allEmpty THEN -1
                                               ELSE merged[1].composite_score]]

\* Phase 1 awaited with Promise.all: one rejection rejects the await, and the
\* catch block logs the run as an error
ScrapersAllOrNothing(p, redditResults, googleResults, youtubeResults) ==
    /\ runs[p].pc = "scraping"
    /\ IF rejectedOf(redditResults, googleResults, youtubeResults) # {}
       THEN /\ runLog' = logRun(runLog, runs[p].date, "error", 0)
            /\ runs' = [runs EXCEPT ![p] = doneRun(runs[p], "error", 0)]
       ELSE selectFrom(p, redditResults, googleResults, youtubeResults, {})
    /\ UNCHANGED <<topics, trendSignals, polls, arguments, nextTopicId, today, mergeVars, matchVars, callVars, httpVars, scraperVars, feedVars, backfillVars>>

\* Promise.allSettled resolves; Phase 2 up to the await of the model's reply
ScrapersSettle(p, redditResults, googleResults, youtubeResults) ==
    /\ runs[p].pc = "scraping"
    /\ selectFrom(p, settledValue(redditResults), settledValue(googleResults),
                  settledValue(youtubeResults),
                  rejectedOf(redditResults, googleResults, youtubeResults))
    /\ UNCHANGED <<topics, trendSignals, polls, arguments, nextTopicId, today, mergeVars, matchVars, callVars, httpVars, scraperVars, feedVars, backfillVars>>

\* the rows buildTopic writes before its first await
signalRows(run, topicId) ==
    (IF Len(run.reddit) > 0
     THEN <<[topic_id |-> topicId, source |-> "reddit",
             value |-> run.reddit[1].divisiveness_score]>>
     ELSE <<>>)
    \o
    (IF Len(run.google) > 0
     THEN <<[topic_id |-> topicId, source |-> "google_trends", value |-> run.google[1].score]>>
     ELSE <<>>)

\* The model replies with selected_title; Phase 3 up to the await of the polls.
ModelReplies(p, selected_title) ==
    /\ runs[p].pc = "selecting"
    /\ LET run == runs[p]
           slug == slugify(selected_title, isoDate(run.date))
       IN  IF slugTaken(slug)
           THEN \* INSERT fails on the UNIQUE constraint of topics.slug
                /\ runLog' = logRun(runLog, run.date, "error", 0)
                /\ runs' = [runs EXCEPT ![p] = doneRun(run, "error", 0)]
                /\ UNCHANGED <<topics, trendSignals, nextTopicId>>
           ELSE /\ topics' = Append(topics,
                       [id |-> nextTopicId, slug |-> slug, title |-> selected_title,
                        date |-> run.date,
                        divisiveness_score |-> IF run.top = -1 THEN DefaultDivisiveness
                                               ELSE run.top,
                        status |-> "published"])
                /\ nextTopicId' = nextTopicId + 1
                /\ trendSignals' = trendSignals \o signalRows(run, nextTopicId)
                /\ runLog' = runLog
                /\ runs' = [runs EXCEPT ![p] =
                              [run EXCEPT !.pc = "polling", !.title = selected_title,
                                          !.topicId = nextTopicId,
                                          !.reddit = <<>>, !.google = <<>>,
                                          !.youtube = <<>>, !.rejected = {},
                                          !.top = -1]]
    /\ UNCHANGED <<polls, arguments, today, mergeVars, matchVars, callVars, httpVars, scraperVars, feedVars, backfillVars>>

\* scrapePollingData and processPollingData resolve; the polls are inserted
PollsArrive(p, nPolls) ==
    /\ runs[p].pc = "polling"
    /\ polls' = polls \o [k \in 1..nPolls |-> [topic_id |-> runs[p].topicId]]
    /\ runs' = [runs EXCEPT ![p].pc = "claims"]
    /\ UNCHANGED <<topics, trendSignals, arguments, runLog, nextTopicId, today, mergeVars, matchVars, callVars, httpVars, scraperVars, feedVars, backfillVars>>

\* buildClaimTree resolves; the arguments and claims are inserted, buildTopic
\* returns and the run is logged
ClaimTreeArrives(p, nArgs) ==
    /\ runs[p].pc = "claims"
    /\ arguments' = arguments \o [k \in 1..nArgs |-> [topic_id |-> runs[p].topicId]]
    /\ runLog' = logRun(runLog, runs[p].date, "success", runs[p].topicId)
    /\ runs' = [runs EXCEPT ![p] = doneRun(runs[p], "success", runs[p].topicId)]
    /\ UNCHANGED <<topics, trendSignals, polls, nextTopicId, today, mergeVars, matchVars, callVars, httpVars, scraperVars, feedVars, backfillVars>>

\* the catch block with the rows of the failed topic deleted before the rethrow
AwaitRejectsRollsBack(p) ==
    /\ runs[p].pc \in {"selecting", "polling", "claims"}
    /\ runLog' = logRun(runLog, runs[p].date, "error", 0)
    /\ runs' = [runs EXCEPT ![p] = doneRun(runs[p], "error", 0)]
    /\ topics' = SelectSeq(topics, LAMBDA t : t.id # runs[p].topicId)
    /\ trendSignals' = SelectSeq(trendSignals, LAMBDA r : r.topic_id # runs[p].topicId)
    /\ polls' = SelectSeq(polls, LAMBDA r : r.topic_id # runs[p].topicId)
    /\ arguments' = SelectSeq(arguments, LAMBDA r : r.topic_id # runs[p].topicId)
    /\ UNCHANGED <<nextTopicId, today, mergeVars, matchVars, callVars, httpVars, scraperVars, feedVars, backfillVars>>

\* An awaited call of Phase 2 or 3 rejects (the request to the model fails, its
\* reply does not parse, selectTopicForDate refuses a placeholder title, the
\* polling or claim tree step fails): the catch block logs and rethrows.
AwaitRejects(p) ==
    /\ runs[p].pc \in {"selecting", "polling", "claims"}
    /\ runLog' = logRun(runLog, runs[p].date, "error", 0)
    /\ runs' = [runs EXCEPT ![p] = doneRun(runs[p], "error", 0)]
    /\ UNCHANGED <<topics, trendSignals, polls, arguments, nextTopicId, today, mergeVars, matchVars, callVars, httpVars, scraperVars, feedVars, backfillVars>>

\* midnight UTC passes
DayPasses ==
    /\ today < MaxDay
    /\ today' = today + 1
    /\ UNCHANGED <<dbVars, runs, mergeVars, matchVars, callVars, httpVars, scraperVars, feedVars, backfillVars>>

NextPipeline ==
    \/ \E p \in 1..MaxRuns, trigger \in Triggers, d \in 1..MaxDay : StartRun(p, trigger, d)
    \/ \E p \in 1..MaxRuns, r \in ScrapedReddit, g \in ScrapedGoogle, y \in ScrapedYoutube :
          ScrapersSettle(p, r, g, y)
    \/ \E p \in 1..MaxRuns, t \in AiTitles : ModelReplies(p, t)
    \/ \E p \in 1..MaxRuns, n \in PollCounts : PollsArrive(p, n)
    \/ \E p \in 1..MaxRuns, n \in ArgumentCounts : ClaimTreeArrives(p, n)
    \/ \E p \in 1..MaxRuns : AwaitRejects(p)
    \/ DayPasses

SpecPipeline == InitPipeline /\ [][NextPipeline]_vars

(***************************************************************************)
(* Specification of one call of mergeSignals, or of selectTopic up to its  *)
(* await, on a pool larger than the 20 entries returned                    *)
(***************************************************************************)
MaxRankReddit == 2      \* reddit candidates of the call
MaxRankPool == 21       \* trends candidates of the call, of distinct titles

\* the k-th of the distinct one-word titles
wordN(k) == <<"t","o","p","i","c", LowerChars[k]>>

\* the trends scores of a list: 0..100, their order given by the seed
RankSeeds == {1, 7, 100}
scoreAt(seed, k) == (seed * k) % 101

\* the reddit candidates of a list: distinct titles, comments below or above
\* the 5000 at which the engagement term is capped
rankRedditTitle(k) == <<tAB, tACD, tABCD>>[k]
RankComments == {1000, 6000}
RankYoutube ==
    {<<>>, <<[title |-> wordN(1), divisiveness_score |-> 50]>>,
     <<[title |-> tBang, divisiveness_score |-> 50]>>}

\* a published topic for the day of the call
publishedToday ==
    [id |-> 1, slug |-> slugify(aiTax, isoDate(1)), title |-> aiTax, date |-> 1,
     divisiveness_score |-> DefaultDivisiveness, status |-> "published"]

InitRank ==
    /\ \E m \in 0..MaxRankReddit :
         \E comments \in [1..m -> RankComments] :
           redditCandidates = [k \in 1..m |-> [title |-> rankRedditTitle(k),
                                                divisiveness_score |-> 80,
                                                total_comments |-> comments[k]]]
    /\ \E n \in 0..MaxRankPool, seed \in RankSeeds :
         googleTrends = [k \in 1..n |-> [title |-> wordN(k), score |-> scoreAt(seed, k)]]
    /\ youtubeCandidates \in RankYoutube
    /\ candidates = <<>> /\ pc = "call" /\ idx = 1 /\ ranked = <<>>
    /\ \/ topics = <<>> /\ nextTopicId = 1
       \/ topics = <<publishedToday>> /\ nextTopicId = 2
    /\ trendSignals = <<>> /\ polls = <<>> /\ arguments = <<>>
    /\ runLog = <<>> /\ today = 1 /\ runs = <<>>
    /\ MatchIdle /\ CallsIdle /\ HttpIdle /\ ScrapersIdle /\ FeedsIdle /\ BackfillIdle

\* mergeSignals(redditCandidates, googleTrends, youtubeCandidates), start to return
CallMergeSignals ==
    /\ pc = "call"
    /\ candidates' = poolInOrder(CodeOrder, redditCandidates, googleTrends, youtubeCandidates)
    /\ ranked' \in rankOutcomes(candidates')
    /\ pc' = "returned"
    /\ UNCHANGED <<redditCandidates, googleTrends, youtubeCandidates, idx, matchVars, pipeVars, callVars, httpVars, scraperVars, feedVars, backfillVars>>

\* selectTopic(redditCandidates, googleTrends, youtubeCandidates, date) up to
\* its return of null, its throw, or its await of the model's reply
CallSelectTopic ==
    /\ pc = "call"
    /\ IF topicExistsForDate(today)
       THEN /\ pc' = "selectNull"
            /\ UNCHANGED <<candidates, ranked>>
       ELSE /\ candidates' = poolInOrder(CodeOrder, redditCandidates, googleTrends, youtubeCandidates)
            /\ ranked' \in rankOutcomes(candidates')
            /\ pc' = IF Len(ranked') = 0 THEN "selectThrew" ELSE "selectAwaitsModel"
    /\ UNCHANGED <<redditCandidates, googleTrends, youtubeCandidates, idx, matchVars, pipeVars, callVars, httpVars, scraperVars, feedVars, backfillVars>>

NextRank == CallMergeSignals \/ CallSelectTopic

SpecRank == InitRank /\ [][NextRank]_vars

(***************************************************************************)
(* Specification of two mergeSignals calls whose steps interleave.  The    *)
(* Map `candidates` is a local of the call: each call has its own.         *)
(***************************************************************************)
MaxCallCandidates == 2  \* candidates in the three lists of one call together

Callers == {"a", "b"}

CallTitles == {tAB, tBang}
CallReddit == [title : CallTitles, divisiveness_score : {80}, total_comments : {1000}]
CallGoogle == [title : CallTitles, score : {90}]
CallYoutube == [title : {tAB}, divisiveness_score : {50}]

listsOf(S) == UNION {[1..n -> S] : n \in 0..MaxCallCandidates}

CallArguments ==
    {a \in listsOf(CallReddit) \X listsOf(CallGoogle) \X listsOf(CallYoutube) :
        Len(a[1]) + Len(a[2]) + Len(a[3]) <= MaxCallCandidates}

\* function entry: const candidates = new Map()
newCall(a) ==
    [reddit |-> a[1], google |-> a[2], youtube |-> a[3],
     pool |-> <<>>, pc |-> "reddit", idx |-> 1, ranked |-> <<>>]

\* one Map for all calls, as a variable of the module would be
sharedPool(c) == "a"

\* the call whose record holds the Map that `candidates` names in call c
poolOf(c) == c

loopSource(p) ==
    CASE p = "reddit" -> "reddit" [] p = "google" -> "google_trends" [] p = "youtube" -> "youtube"
loopList(call) ==
    CASE call.pc = "reddit" -> call.reddit
      [] call.pc = "google" -> call.google
      [] call.pc = "youtube" -> call.youtube
afterLoop(p) ==
    CASE p = "reddit" -> "google" [] p = "google" -> "youtube" [] p = "youtube" -> "score"

InitTwo ==
    /\ calls \in [Callers -> {newCall(a) : a \in CallArguments}]
    /\ MergeIdle /\ MatchIdle /\ PipeIdle /\ HttpIdle /\ ScrapersIdle /\ FeedsIdle /\ BackfillIdle

\* the body of the current for-of loop of call c, for one candidate
CallFoldStep(c) ==
    /\ calls[c].pc \in {"reddit", "google", "youtube"}
    /\ calls[c].idx <= Len(loopList(calls[c]))
    /\ calls' = [calls EXCEPT
                   ![poolOf(c)].pool = foldOne(loopSource(calls[c].pc), @,
                                               loopList(calls[c])[calls[c].idx]),
                   ![c].idx = @ + 1]
    /\ UNCHANGED <<mergeVars, matchVars, pipeVars, httpVars, scraperVars, feedVars, backfillVars>>

\* the current loop of call c ends
CallLoopDone(c) ==
    /\ calls[c].pc \in {"reddit", "google", "youtube"}
    /\ calls[c].idx > Len(loopList(calls[c]))
    /\ calls' = [calls EXCEPT ![c].pc = afterLoop(@), ![c].idx = 1]
    /\ UNCHANGED <<mergeVars, matchVars, pipeVars, httpVars, scraperVars, feedVars, backfillVars>>

\* the map over candidates.values(), the sort and the slice; return
CallScoreAndRank(c) ==
    /\ calls[c].pc = "score"
    /\ \E l \in rankOutcomes(calls[poolOf(c)].pool) :
         calls' = [calls EXCEPT ![c].ranked = l, ![c].pc = "done"]
    /\ UNCHANGED <<mergeVars, matchVars, pipeVars, httpVars, scraperVars, feedVars, backfillVars>>

NextTwo == \E c \in Callers : CallFoldStep(c) \/ CallLoopDone(c) \/ CallScoreAndRank(c)

SpecTwo == InitTwo /\ [][NextTwo]_vars

(***************************************************************************)
(* The HTTP server: index.js, routes/topics.js and routes/admin.js.  One   *)
(* action is a request taken through the middleware and its handler up to  *)
(* the handler's first await; the runs that run-daily and backfill start   *)
(* go on as in SpecPipeline.  A header that is absent is the empty string; *)
(* a date of the body is a day, Undefined when absent, NaN when it is not  *)
(* of the form YYYY-MM-DD.                                                 *)
(***************************************************************************)
MaxRequests == 3        \* requests the server receives

bearerPrefix == <<"B","e","a","r","e","r"," ">>
secretValue == <<"s","3">>
otherSecret == <<"x","9">>

\* process.env.ADMIN_SECRET: unset, or set
Secrets == {<<>>, secretValue}

AuthHeaders ==
    {<<>>, bearerPrefix, secretValue,
     bearerPrefix \o secretValue,
     bearerPrefix \o otherSecret,
     toLowerCase(bearerPrefix) \o secretValue,
     bearerPrefix \o secretValue \o SP}

seedTitle == <<"S","t","u","d","e","n","t"," ","L","o","a","n"," ",
               "F","o","r","g","i","v","e","n","e","s","s">>

RequestSlugs == {slugify(seedTitle, isoDate(1)), slugify(aiTax, isoDate(1))}
BodyDates == {Undefined, NaN} \cup (1..MaxDay)

adminPath(name) == "/api/admin/" \o name

requestOf(method, path, authorization, slug, start_date, end_date) ==
    [seq |-> 0, method |-> method, path |-> path, authorization |-> authorization,
     slug |-> slug, start_date |-> start_date, end_date |-> end_date]

AdminRequests ==
    {requestOf(r[1], adminPath(r[2]), h, <<>>, Undefined, Undefined) :
        r \in {<<"POST", "run-daily">>, <<"POST", "seed-sample">>,
                <<"GET", "run-log">>, <<"GET", "health">>},
        h \in AuthHeaders}
    \cup {requestOf("POST", adminPath("backfill"), h, <<>>, d[1], d[2]) :
            h \in AuthHeaders, d \in BodyDates \X BodyDates}
    \cup {requestOf("DELETE", adminPath("topics/:slug"), h, sl, Undefined, Undefined) :
            h \in AuthHeaders, sl \in RequestSlugs}

PublicRequests ==
    {requestOf("GET", path, <<>>, <<>>, Undefined, Undefined) :
        path \in {"/health", "/api/topics", "/api/topics/today", "/api/topics/categories"}}
    \cup {requestOf("GET", "/api/topics/:slug", <<>>, sl, Undefined, Undefined) :
            sl \in RequestSlugs}

\* the header compared without regard to case
requireAdminIgnoringCase(secret, auth) ==
    IF secret = <<>> THEN 503
    ELSE IF auth = <<>> \/ toLowerCase(auth) # toLowerCase(bearerPrefix \o secret) THEN 401
    ELSE 0

\* requireAdmin: the status it answers with, 0 when it calls next()
requireAdmin(secret, auth) ==
    IF secret = <<>> THEN 503
    ELSE IF auth = <<>> \/ auth # bearerPrefix \o secret THEN 401
    ELSE 0

InitHttp ==
    /\ adminSecret \in Secrets
    /\ request = NoRequest
    /\ response = 0
    /\ topics = <<>> /\ trendSignals = <<>> /\ polls = <<>> /\ arguments = <<>>
    /\ runLog = <<>> /\ nextTopicId = 1 /\ today = 1 /\ runs = <<>>
    /\ MergeIdle /\ MatchIdle /\ CallsIdle /\ ScrapersIdle /\ FeedsIdle /\ BackfillIdle

\* the request is received: it is the next one the server handles
received(req) ==
    /\ request.seq < MaxRequests
    /\ request' = [req EXCEPT !.seq = request.seq + 1]

isAdmin(req, method, name) == req.method = method /\ req.path = adminPath(name)

\* requireAdmin answers 503 or 401 and the handler of the route is not called
RequireAdminRejects(req) ==
    /\ req \in AdminRequests
    /\ received(req)
    /\ requireAdmin(adminSecret, req.authorization) # 0
    /\ response' = requireAdmin(adminSecret, req.authorization)
    /\ UNCHANGED <<adminSecret, pipeVars, mergeVars, matchVars, callVars, scraperVars, feedVars, backfillVars>>

\* runDailyPipeline(overrideDate) from its call to its first await
pipelineStarted(date) ==
    IF topicExistsForDate(date)
    THEN /\ runLog' = logRun(runLog, date, "skipped", 0)
         /\ runs' = Append(runs, doneRun([IdleRun EXCEPT !.date = date], "skipped", 0))
    ELSE /\ runLog' = runLog
         /\ runs' = Append(runs, [IdleRun EXCEPT !.date = date, !.pc = "scraping"])

\* POST /api/admin/run-daily
HandleRunDaily(req) ==
    /\ isAdmin(req, "POST", "run-daily")
    /\ received(req)
    /\ requireAdmin(adminSecret, req.authorization) = 0
    /\ response' = 200
    /\ pipelineStarted(today)
    /\ UNCHANGED <<adminSecret, topics, trendSignals, polls, arguments, nextTopicId, today,
                   mergeVars, matchVars, callVars, scraperVars, feedVars, backfillVars>>

\* POST /api/admin/seed-sample
HandleSeedSample(req) ==
    /\ isAdmin(req, "POST", "seed-sample")
    /\ received(req)
    /\ requireAdmin(adminSecret, req.authorization) = 0
    /\ IF topicExistsForDate(today)
       THEN /\ response' = 200
            /\ UNCHANGED <<topics, polls, arguments, nextTopicId>>
       ELSE IF slugTaken(slugify(seedTitle, isoDate(today)))
       THEN /\ response' = 500
            /\ UNCHANGED <<topics, polls, arguments, nextTopicId>>
       ELSE /\ response' = 200
            /\ topics' = Append(topics,
                   [id |-> nextTopicId, slug |-> slugify(seedTitle, isoDate(today)),
                    title |-> seedTitle, date |-> today, divisiveness_score |-> 234000,
                    status |-> "published"])
            /\ nextTopicId' = nextTopicId + 1
            /\ polls' = polls \o [k \in 1..2 |-> [topic_id |-> nextTopicId]]
            /\ arguments' = arguments \o [k \in 1..6 |-> [topic_id |-> nextTopicId]]
    /\ UNCHANGED <<adminSecret, trendSignals, runLog, today, runs, mergeVars, matchVars, callVars, scraperVars, feedVars, backfillVars>>

\* POST /api/admin/backfill: the checks of the body, the answer, and the
\* background loop up to the first day it calls runDailyPipeline for
HandleBackfill(req) ==
    /\ isAdmin(req, "POST", "backfill")
    /\ received(req)
    /\ requireAdmin(adminSecret, req.authorization) = 0
    /\ IF \/ req.start_date = Undefined \/ req.end_date = Undefined
          \/ req.start_date = NaN \/ req.end_date = NaN
          \/ req.start_date > req.end_date
       THEN /\ response' = 400
            /\ UNCHANGED <<runLog, runs>>
       ELSE /\ response' = 200
            /\ LET missing == {d \in req.start_date..req.end_date : ~topicExistsForDate(d)}
               IN  IF missing = {} THEN UNCHANGED <<runLog, runs>>
                   ELSE pipelineStarted(Min(missing))
    /\ UNCHANGED <<adminSecret, topics, trendSignals, polls, arguments, nextTopicId, today,
                   mergeVars, matchVars, callVars, scraperVars, feedVars, backfillVars>>

\* DELETE /api/admin/topics/:slug
HandleDeleteTopic(req) ==
    /\ isAdmin(req, "DELETE", "topics/:slug")
    /\ received(req)
    /\ requireAdmin(adminSecret, req.authorization) = 0
    /\ IF ~slugTaken(req.slug)
       THEN /\ response' = 404
            /\ UNCHANGED <<topics, trendSignals, polls, arguments>>
       ELSE LET id == topics[CHOOSE k \in DOMAIN topics : topics[k].slug = req.slug].id
            IN  /\ response' = 200
                /\ arguments' = SelectSeq(arguments, LAMBDA a : a.topic_id # id)
                /\ polls' = SelectSeq(polls, LAMBDA a : a.topic_id # id)
                /\ trendSignals' = SelectSeq(trendSignals, LAMBDA a : a.topic_id # id)
                /\ topics' = SelectSeq(topics, LAMBDA t : t.id # id)
    /\ UNCHANGED <<adminSecret, runLog, nextTopicId, today, runs, mergeVars, matchVars, callVars, scraperVars, feedVars, backfillVars>>

\* GET /api/admin/run-log and GET /api/admin/health
HandleAdminGet(req) ==
    /\ isAdmin(req, "GET", "run-log") \/ isAdmin(req, "GET", "health")
    /\ received(req)
    /\ requireAdmin(adminSecret, req.authorization) = 0
    /\ response' = 200
    /\ UNCHANGED <<adminSecret, pipeVars, mergeVars, matchVars, callVars, scraperVars, feedVars, backfillVars>>

\* GET /health and the routes of the topics router
HandlePublicGet(req) ==
    /\ req \in PublicRequests
    /\ received(req)
    /\ response' =
         IF req.path = "/api/topics/today" /\ ~topicExistsForDate(today) THEN 404
         ELSE IF req.path = "/api/topics/:slug" /\ ~slugTaken(req.slug) THEN 404
         ELSE 200
    /\ UNCHANGED <<adminSecret, pipeVars, mergeVars, matchVars, callVars, scraperVars, feedVars, backfillVars>>

NextHttp ==
    \/ \E req \in AdminRequests : RequireAdminRejects(req)
    \/ \E req \in AdminRequests : HandleRunDaily(req)
    \/ \E req \in AdminRequests : HandleSeedSample(req)
    \/ \E req \in AdminRequests : HandleBackfill(req)
    \/ \E req \in AdminRequests : HandleDeleteTopic(req)
    \/ \E req \in AdminRequests : HandleAdminGet(req)
    \/ \E req \in PublicRequests : HandlePublicGet(req)

SpecHttp == InitHttp /\ [][NextHttp]_vars

(***************************************************************************)
(* scrapers/googleTrendsScraper: the scores the two adapters supply, and   *)
(* one mergeSignals call on the list scrapeGoogleTrends returns            *)
(***************************************************************************)
MaxTrendItems == 2      \* items of the RSS feed
MaxSerpItems == 20      \* items of the SerpAPI reply beyond which it is cut

\* score: 100 - i * 3, for the item at index i (from 0) of items.slice(0, 20)
serpApiScore(i) == 100 - i * 3

\* fetchViaSerpApi on a reply of n trending searches
fetchViaSerpApi(n) ==
    [k \in 1..MinOf(n, 20) |-> [title |-> <<"t","o","p","i","c", LowerChars[k]>>,
                                score |-> serpApiScore(k - 1)]]

\* the approx_traffic figures of the feed, all multiples of 1000 so that
\* volume / 1000 is an integer; 0 is also the volume of an item without figure
RssVolumes == {0, 20000, 70000, 100000, 5000000}

\* score: volume / 1000 without the Math.min
rssScoreUncapped(volume) == volume \div 1000

\* score: Math.min(volume / 1000, 100)
rssScore(volume) == MinOf(volume \div 1000, 100)

tTaxBill == <<"T","a","x"," ","b","i","l","l">>
tGameScore == <<"g","a","m","e"," ","s","c","o","r","e">>
RssTitles == {tAB, tTaxBill, tGameScore}

\* fetchViaRss on a feed of items [title, volume]
fetchViaRss(items) ==
    [k \in DOMAIN items |-> [title |-> items[k].title, score |-> rssScore(items[k].volume)]]

NOISE ==
    {
     <<"w","e","a","t","h","e","r">>, <<"s","p","o","r","t","s">>, <<"n","f","l">>,
     <<"n","b","a">>, <<"r","e","c","i","p","e">>, <<"m","o","v","i","e">>,
     <<"a","c","t","o","r">>, <<"s","i","n","g","e","r">>, <<"c","e","l","e","b","r","i","t","y">>,
     <<"g","a","m","e">>, <<"s","c","o","r","e">>, <<"m","a","t","c","h">>,
     <<"f","a","s","h","i","o","n">>}
SIGNAL ==
    {
     <<"l","a","w">>, <<"b","i","l","l">>, <<"p","o","l","i","c","y">>,
     <<"r","i","g","h","t","s">>, <<"i","m","m","i","g","r","a","t","i","o","n">>, <<"h","e","a","l","t","h","c","a","r","e">>,
     <<"c","l","i","m","a","t","e">>, <<"g","u","n">>, <<"a","b","o","r","t","i","o","n">>,
     <<"t","a","x">>, <<"e","l","e","c","t","i","o","n">>, <<"v","o","t","e">>,
     <<"e","c","o","n","o","m","y">>, <<"i","n","f","l","a","t","i","o","n">>, <<"w","a","r">>,
     <<"c","r","i","s","i","s">>, <<"c","o","u","r","t">>, <<"c","o","n","g","r","e","s","s">>,
     <<"s","e","n","a","t","e">>, <<"p","r","e","s","i","d","e","n","t">>, <<"b","a","n">>,
     <<"r","e","g","u","l","a","t","i","o","n">>, <<"r","e","f","o","r","m">>}

\* RegExp.prototype.test of an alternation of words with the i flag
test(words, title) ==
    LET low == toLowerCase(title)
    IN  \E w \in words : \E k \in 1..(Len(low) - Len(w) + 1) :
            SubSeq(low, k, k + Len(w) - 1) = w

filterTopics(trends) ==
    SelectSeq(trends, LAMBDA t : ~test(NOISE, t.title) /\ (test(SIGNAL, t.title) \/ t.score > 60))

\* scrapeGoogleTrends: the SerpAPI list, or the RSS list when that one is null
\* or empty, filtered
scrapeGoogleTrends(serp, rssItems) ==
    filterTopics(IF serp = <<>> THEN fetchViaRss(rssItems) ELSE serp)

InitTrends ==
    /\ redditCandidates \in {<<>>, <<[title |-> tAB, divisiveness_score |-> 80,
                                       total_comments |-> 1000]>>}
    /\ \/ \E n \in 1..MaxSerpItems : googleTrends = scrapeGoogleTrends(fetchViaSerpApi(n), <<>>)
       \/ \E n \in 0..MaxTrendItems :
             \E items \in [1..n -> [title : RssTitles, volume : RssVolumes]] :
               googleTrends = scrapeGoogleTrends(<<>>, items)
    /\ youtubeCandidates \in {<<>>, <<[title |-> tTaxBill, divisiveness_score |-> 50]>>}
    /\ candidates = <<>>
    /\ pc = "reddit"
    /\ idx = 1
    /\ ranked = <<>>
    /\ MatchIdle /\ PipeIdle /\ CallsIdle /\ HttpIdle /\ ScrapersIdle /\ FeedsIdle /\ BackfillIdle

SpecTrends == InitTrends /\ [][Next]_vars

(***************************************************************************)
(* scrapers/redditScraper and scrapers/youtubeScraper: the scoring and     *)
(* normalizing functions, one call each.  A ratio is in hundredths, the    *)
(* result of scoreDivisiveness in thousandths; the video divisiveness is   *)
(* the fraction num / den.                                                 *)
(***************************************************************************)
\* the powers of ten num_comments + 1 is drawn from, with their logarithms
PowersOfTen == <<1, 10, 100, 1000, 10000, 100000>>

\* Math.log10 of a power of ten
log10(x) == (CHOOSE k \in DOMAIN PowersOfTen : PowersOfTen[k] = x) - 1

\* |x - 0.5| in hundredths
absFromHalf(x) == IF x >= 50 THEN x - 50 ELSE 50 - x

\* a destructured property with its default value
orDefault(x, d) == IF x = Undefined THEN d ELSE x

\* scoreDivisiveness with a ratio term of 1 - |upvote_ratio - 0.5|
scoreDivisivenessHalfSlope(post) ==
    LET upvote_ratio == orDefault(post.upvote_ratio, 50)
        num_comments == orDefault(post.num_comments, 0)
        score == orDefault(post.score, 0)
        ratioDivisiveness == 100 - absFromHalf(upvote_ratio)
        engagementWeight == MinOf(25 * log10(num_comments + 1), 100)
        scoreWeight == IF score > 100 THEN 100 ELSE score
    IN  ratioDivisiveness * 6 + engagementWeight * 3 + scoreWeight * 1

scoreDivisiveness(post) ==
    LET upvote_ratio == orDefault(post.upvote_ratio, 50)
        num_comments == orDefault(post.num_comments, 0)
        score == orDefault(post.score, 0)
        \* 1 - Math.abs(upvote_ratio - 0.5) * 2
        ratioDivisiveness == 100 - absFromHalf(upvote_ratio) * 2
        \* Math.min(Math.log10(num_comments + 1) / 4, 1)
        engagementWeight == MinOf(25 * log10(num_comments + 1), 100)
        \* score > 100 ? 1 : score / 100
        scoreWeight == IF score > 100 THEN 100 ELSE score
    IN  ratioDivisiveness * 6 + engagementWeight * 3 + scoreWeight * 1

\* .replace(/[^a-z0-9\s]/g, ' ')
blankOther(s) ==
    [k \in DOMAIN s |-> IF s[k] \in LowerSet \cup DigitSet \cup WhitespaceChars THEN s[k] ELSE " "]

\* .replace(/\s+/g, ' '): every run of whitespace becomes one space
RECURSIVE collapseWhitespace(_)
collapseWhitespace(s) ==
    IF s = <<>> THEN <<>>
    ELSE IF Head(s) \in WhitespaceChars
         THEN IF Len(s) > 1 /\ s[2] \in WhitespaceChars
              THEN collapseWhitespace(Tail(s))
              ELSE <<" ">> \o collapseWhitespace(Tail(s))
         ELSE <<Head(s)>> \o collapseWhitespace(Tail(s))

\* redditScraper.normalizeTitle
normalizeTitleReddit(title) == trim(collapseWhitespace(blankOther(toLowerCase(title))))

\* parseInt(stats.viewCount || '0', 10) of a statistic given as digits
parseStat(x) == orDefault(x, 0)

\* the divisiveness of a video without the viewCount > 0 test: 0 / 0 is NaN,
\* and a count over 0 is Infinity, which Math.min brings to 1
videoDivisivenessUnguarded(stats) ==
    LET viewCount == parseStat(stats.viewCount)
        commentCount == parseStat(stats.commentCount)
    IN  IF viewCount = 0
        THEN IF commentCount = 0 THEN [num |-> NaN, den |-> 1] ELSE [num |-> 1, den |-> 1]
        ELSE IF commentCount * 1000 >= viewCount THEN [num |-> 1, den |-> 1]
        ELSE [num |-> commentCount * 1000, den |-> viewCount]

\* fetchTrendingVideos: commentDensity and divisiveness of one video
videoDivisiveness(stats) ==
    LET viewCount == parseStat(stats.viewCount)
        commentCount == parseStat(stats.commentCount)
        \* viewCount > 0 ? commentCount / viewCount : 0
        commentDensity == IF viewCount > 0 THEN [num |-> commentCount, den |-> viewCount]
                          ELSE [num |-> 0, den |-> 1]
        times1000 == [num |-> commentDensity.num * 1000, den |-> commentDensity.den]
    IN  \* Math.min(commentDensity * 1000, 1)
        IF times1000.num >= times1000.den THEN [num |-> 1, den |-> 1] ELSE times1000

Ratios == {0, 10, 25, 40, 49, 50, 51, 60, 75, 90, 100, Undefined}
Posts ==
    [upvote_ratio : Ratios, num_comments : {0, 9, 99, 9999, 99999, Undefined},
     score : {0, 50, 100, 250, Undefined}]

VideoStats ==
    [viewCount : {0, 100, 1000, 50000, 100000, 2000000, Undefined},
     commentCount : {0, 1, 50, 100, 1000, 5000, Undefined}]

tGunDashBan == <<"G","u","n"," ","-"," ","B","a","n">>
tTabbed == <<"a","\t","b","1">>
tPadded == <<" ","X","y"," ","\n"," ","z","!"," ">>
RawTitles == Titles \cup AiTitles \cup {tGunDashBan, tTabbed, tPadded, <<>>}

Functions ==
    {"scoreDivisiveness", "videoDivisiveness", "redditScraper.normalizeTitle",
     "topicSelector.normalizeTitle"}

argumentsOf(f) ==
    CASE f = "scoreDivisiveness" -> Posts
      [] f = "videoDivisiveness" -> VideoStats
      [] OTHER -> RawTitles

InitScrapers ==
    /\ fn \in Functions
    /\ fnArgs \in argumentsOf(fn)
    /\ fnResult = 0
    /\ fnPc = "call"
    /\ MergeIdle /\ MatchIdle /\ PipeIdle /\ CallsIdle /\ HttpIdle /\ FeedsIdle /\ BackfillIdle

CallScoreDivisiveness ==
    /\ fnPc = "call" /\ fn = "scoreDivisiveness"
    /\ fnResult' = scoreDivisiveness(fnArgs)
    /\ fnPc' = "returned"
    /\ UNCHANGED <<fn, fnArgs, mergeVars, matchVars, pipeVars, callVars, httpVars, feedVars, backfillVars>>

CallVideoDivisiveness ==
    /\ fnPc = "call" /\ fn = "videoDivisiveness"
    /\ fnResult' = videoDivisiveness(fnArgs)
    /\ fnPc' = "returned"
    /\ UNCHANGED <<fn, fnArgs, mergeVars, matchVars, pipeVars, callVars, httpVars, feedVars, backfillVars>>

CallNormalizeTitleReddit ==
    /\ fnPc = "call" /\ fn = "redditScraper.normalizeTitle"
    /\ fnResult' = normalizeTitleReddit(fnArgs)
    /\ fnPc' = "returned"
    /\ UNCHANGED <<fn, fnArgs, mergeVars, matchVars, pipeVars, callVars, httpVars, feedVars, backfillVars>>

CallNormalizeTitle ==
    /\ fnPc = "call" /\ fn = "topicSelector.normalizeTitle"
    /\ fnResult' = normalizeTitle(fnArgs)
    /\ fnPc' = "returned"
    /\ UNCHANGED <<fn, fnArgs, mergeVars, matchVars, pipeVars, callVars, httpVars, feedVars, backfillVars>>

NextScrapers ==
    \/ CallScoreDivisiveness \/ CallVideoDivisiveness
    \/ CallNormalizeTitleReddit \/ CallNormalizeTitle

SpecScrapers == InitScrapers /\ [][NextScrapers]_vars

(***************************************************************************)
(* processors/claimTreeBuilder: the buildClaimTree calls of successive     *)
(* pipeline runs in one process, and the module variable _feedCache        *)
(***************************************************************************)
MaxTreeCalls == 3       \* buildClaimTree calls
MaxEditions == 3        \* editions of the feeds the fact-checkers serve

InitFeeds ==
    /\ feedCache = 0
    /\ feedsPublished = 1
    /\ treeCalls = <<>>
    /\ MergeIdle /\ MatchIdle /\ PipeIdle /\ CallsIdle /\ HttpIdle /\ ScrapersIdle /\ BackfillIdle

\* no buildClaimTree call is in flight: the run of the last one has finished
treeCallsDone == \A k \in DOMAIN treeCalls : treeCalls[k].pc = "done"

\* The next run calls buildClaimTree, which calls loadFactCheckerFeeds:
\* if (_feedCache) return _feedCache; otherwise the feeds are requested.
StartBuildClaimTree ==
    /\ Len(treeCalls) < MaxTreeCalls
    /\ treeCallsDone
    /\ treeCalls' = Append(treeCalls,
                            IF feedCache # 0
                            THEN [pc |-> "generating", feeds |-> feedCache, loaded |-> FALSE]
                            ELSE [pc |-> "loading", feeds |-> 0, loaded |-> FALSE])
    /\ UNCHANGED <<feedCache, feedsPublished, mergeVars, matchVars, pipeVars, callVars, httpVars, scraperVars, backfillVars>>

\* Promise.allSettled of the five feed requests resolves: _feedCache is set
FeedsArrive ==
    /\ \E k \in DOMAIN treeCalls :
         /\ treeCalls[k].pc = "loading"
         /\ feedCache' = feedsPublished
         /\ treeCalls' = [treeCalls EXCEPT ![k] = [pc |-> "generating", feeds |-> feedsPublished,
                                                    loaded |-> TRUE]]
    /\ UNCHANGED <<feedsPublished, mergeVars, matchVars, pipeVars, callVars, httpVars, scraperVars, backfillVars>>

\* the argument structure is generated and every claim checked against feeds
ClaimTreeReturns ==
    /\ \E k \in DOMAIN treeCalls :
         /\ treeCalls[k].pc = "generating"
         /\ treeCalls' = [treeCalls EXCEPT ![k].pc = "done"]
    /\ UNCHANGED <<feedCache, feedsPublished, mergeVars, matchVars, pipeVars, callVars, httpVars, scraperVars, backfillVars>>

\* the fact-checkers publish: the feeds served from now on are a new edition
FeedsPublish ==
    /\ feedsPublished < MaxEditions
    /\ feedsPublished' = feedsPublished + 1
    /\ UNCHANGED <<feedCache, treeCalls, mergeVars, matchVars, pipeVars, callVars, httpVars, scraperVars, backfillVars>>

\* the process is started anew between two runs (a deploy, or the command
\* line run of scheduler/runDaily): the module is loaded again
ProcessRestarts ==
    /\ treeCalls # <<>> /\ treeCallsDone
    /\ feedCache # 0
    /\ feedCache' = 0
    /\ UNCHANGED <<feedsPublished, treeCalls, mergeVars, matchVars, pipeVars, callVars, httpVars, scraperVars, backfillVars>>

NextFeeds ==
    \/ StartBuildClaimTree
    \/ FeedsArrive
    \/ ClaimTreeReturns
    \/ FeedsPublish
    \/ ProcessRestarts

SpecFeeds == InitFeeds /\ [][NextFeeds]_vars

(***************************************************************************)
(* routes/admin: the background loop of POST /api/admin/backfill, after    *)
(* the handler has validated the range and answered.  Instants are hours   *)
(* since the midnight (UTC) that begins day 0; day d is the date           *)
(* isoDate(d).                                                             *)
(***************************************************************************)
MaxBackfillDay == 4     \* the last date a range may end on

\* The time zone of the process, by which Date.prototype.getDate and setDate
\* count days: no change of offset, or one change at an instant of day 2
\* (07:00 UTC), where the clocks are set back (the day has 25 hours) or
\* forward (23 hours).
NoShift == [at |-> 0, hours |-> 0]
Zones == {NoShift, [at |-> 2 * 24 + 7, hours |-> 1], [at |-> 2 * 24 + 7, hours |-> -1]}

\* new Date('YYYY-MM-DD'): midnight UTC of the day
dateOf(day) == day * 24

\* current.toISOString().slice(0, 10): the UTC day of the instant
dateStr(current) == current \div 24

\* current.setDate(current.getDate() + 1): the same local time on the next
\* local day, which is 24 hours later unless the offset changes in between
setDateNext(current, zone) ==
    IF zone.hours # 0 /\ current < zone.at /\ zone.at <= current + 24
    THEN current + 24 + zone.hours
    ELSE current + 24

\* a topic published earlier for the day
publishedOn(day) ==
    [id |-> 1, slug |-> slugify(aiGunBan, isoDate(day)), title |-> aiGunBan, date |-> day,
     divisiveness_score |-> DefaultDivisiveness, status |-> "published"]

InitBackfill ==
    /\ \E start_date \in 1..MaxBackfillDay, end_date \in 1..MaxBackfillDay, zone \in Zones :
         /\ dateOf(start_date) <= dateOf(end_date)
         /\ backfill = [pc |-> "loop", zone |-> zone,
                        start |-> dateOf(start_date), end |-> dateOf(end_date),
                        \* Math.round((end - start) / (1000 * 60 * 60 * 24)) + 1
                        days |-> (dateOf(end_date) - dateOf(start_date)) \div 24 + 1,
                        current |-> dateOf(start_date),
                        handled |-> <<>>, run |-> 0,
                        succeeded |-> 0, skipped |-> 0, failed |-> 0]
    /\ \/ topics = <<>> /\ nextTopicId = 1
       \/ topics = <<publishedOn(2)>> /\ nextTopicId = 2
    /\ trendSignals = <<>> /\ polls = <<>> /\ arguments = <<>> /\ runLog = <<>>
    /\ today = MaxBackfillDay
    /\ runs = [p \in 1..MaxBackfillDay |-> IdleRun]
    /\ MergeIdle /\ MatchIdle /\ CallsIdle /\ HttpIdle /\ ScrapersIdle /\ FeedsIdle

\* while (current <= end) is false: 'Backfill complete' is logged
BackfillCompletes ==
    /\ backfill.pc = "loop" /\ ~(backfill.current <= backfill.end)
    /\ backfill' = [backfill EXCEPT !.pc = "finished"]
    /\ UNCHANGED <<pipeVars, mergeVars, matchVars, callVars, httpVars, scraperVars, feedVars>>

\* an iteration whose date has a topic: skipped++, then setDate
BackfillSkips ==
    /\ backfill.pc = "loop" /\ backfill.current <= backfill.end
    /\ topicExistsForDate(dateStr(backfill.current))
    /\ backfill' = [backfill EXCEPT !.skipped = @ + 1,
                                     !.handled = Append(@, dateStr(backfill.current)),
                                     !.current = setDateNext(@, backfill.zone)]
    /\ UNCHANGED <<pipeVars, mergeVars, matchVars, callVars, httpVars, scraperVars, feedVars>>

\* an iteration whose date has no topic, up to the await of Phase 1 inside
\* runDailyPipeline(dateStr), whose guard has just been found false
BackfillCallsPipeline ==
    /\ backfill.pc = "loop" /\ backfill.current <= backfill.end
    /\ ~topicExistsForDate(dateStr(backfill.current))
    /\ \E p \in DOMAIN runs :
         /\ runs[p].pc = "idle"
         /\ \A q \in 1..(p - 1) : runs[q].pc # "idle"
         /\ runs' = [runs EXCEPT ![p] = [runs[p] EXCEPT !.date = dateStr(backfill.current),
                                                        !.pc = "scraping"]]
         /\ backfill' = [backfill EXCEPT !.pc = "awaiting", !.run = p,
                                          !.handled = Append(@, dateStr(backfill.current))]
    /\ UNCHANGED <<dbVars, today, mergeVars, matchVars, callVars, httpVars, scraperVars, feedVars>>

\* runDailyPipeline has returned (succeeded++) or thrown (failed++); the pause
\* of 3 seconds, then setDate
BackfillResumes ==
    /\ backfill.pc = "awaiting" /\ runs[backfill.run].pc = "done"
    /\ backfill' = [backfill EXCEPT
                       !.pc = "loop", !.run = 0,
                       !.succeeded = IF runs[backfill.run].result = "error" THEN @ ELSE @ + 1,
                       !.failed = IF runs[backfill.run].result = "error" THEN @ + 1 ELSE @,
                       !.current = setDateNext(@, backfill.zone)]
    /\ UNCHANGED <<pipeVars, mergeVars, matchVars, callVars, httpVars, scraperVars, feedVars>>

NextBackfill ==
    \/ BackfillCompletes
    \/ BackfillSkips
    \/ BackfillCallsPipeline
    \/ BackfillResumes
    \/ \E p \in 1..MaxBackfillDay : ScrapersSettle(p, <<rTop>>, "rejected", <<>>)
    \/ \E p \in 1..MaxBackfillDay : ModelReplies(p, aiTax)
    \/ \E p \in 1..MaxBackfillDay : PollsArrive(p, 0)
    \/ \E p \in 1..MaxBackfillDay : ClaimTreeArrives(p, 2)
    \/ \E p \in 1..MaxBackfillDay : AwaitRejects(p)

SpecBackfill == InitBackfill /\ [][NextBackfill]_vars

(***************************************************************************)
(* Vocabulary of the properties                                            *)
(***************************************************************************)
keyOf(c) == normalizeTitle(c.title)

totalInputs == Len(redditCandidates) + Len(googleTrends) + Len(youtubeCandidates)

\* the number of input candidates the loops have handled so far
foldedSoFar ==
    CASE pc = "reddit" -> idx - 1
      [] pc = "google" -> Len(redditCandidates) + idx - 1
      [] pc = "youtube" -> Len(redditCandidates) + Len(googleTrends) + idx - 1
      [] OTHER -> totalInputs

RECURSIVE sumSources(_, _)
sumSources(map, k) ==
    IF k > Len(map) THEN 0 ELSE Len(map[k].val.sources) + sumSources(map, k + 1)

\* the candidate a loop step is about to handle
currentTitle ==
    CASE pc = "reddit" -> redditCandidates[idx].title
      [] pc = "google" -> googleTrends[idx].title
      [] pc = "youtube" -> youtubeCandidates[idx].title

\* a step of one of the three loops
foldStep == pc \in {"reddit", "google", "youtube"} /\ idx' = idx + 1

\* a step that folded its candidate into the existing entry k
foldedInto(k, source) ==
    /\ foldStep
    /\ Len(candidates') = Len(candidates)
    /\ candidates'[k].val.sources = Append(candidates[k].val.sources, source)

compositesOf(list) == [k \in DOMAIN list |-> list[k].composite_score]

(***************************************************************************)
(* C1: every input candidate is in exactly one cluster of the pool: each   *)
(* handled candidate accounts for one entry of one cluster's sources,      *)
(* either as the creator of the cluster or folded into it, so none is      *)
(* erased by a later candidate.                                            *)
(***************************************************************************)
C1_EveryCandidateInOneCluster == sumSources(candidates, 1) = foldedSoFar

(***************************************************************************)
(* C3: in every cluster of the pool each source is listed at most once.    *)
(***************************************************************************)
C3_SourcesListedOnce ==
    \A k \in DOMAIN candidates :
        Cardinality(Range(candidates[k].val.sources)) = Len(candidates[k].val.sources)

(***************************************************************************)
(* C4: when a second trends candidate is folded into a cluster that a      *)
(* trends candidate already contributed to, the trends slot is never       *)
(* replaced by a lower value.                                              *)
(***************************************************************************)
C4_SlotKeepsHighest ==
    [][\A k \in DOMAIN candidates :
          (/\ foldedInto(k, "google_trends")
           /\ "google_trends" \in Range(candidates[k].val.sources))
          => candidates'[k].val.google_score >= candidates[k].val.google_score]_vars

(***************************************************************************)
(* C5: the composite scores of the merge do not depend on the order in     *)
(* which the three sources are folded into the pool.                       *)
(***************************************************************************)
C5_OrderIndependentScores ==
    pc = "done" =>
        \A order \in Orders :
            compositesOf(sortByComposite(scoredOf(poolInOrder(order, redditCandidates, googleTrends, youtubeCandidates)))) =
            compositesOf(sortByComposite(scoredOf(candidates)))

(***************************************************************************)
(* C6: a discussion candidate and a trends candidate with the same set of  *)
(* long words end in one cluster holding both slots.                       *)
(*   C6_SameWordsOneCluster_Original: for every such pair.                 *)
(*   C6_SameWordsOneCluster: for every such pair whose set of long words   *)
(*   is not empty.                                                         *)
(* For such a pair: no cluster with that word set was started by a trends  *)
(* or video candidate, the first cluster with that word set lists reddit   *)
(* and google_trends and holds a reddit and a trends value of the inputs,  *)
(* and when the pair is the whole input the pool is that one cluster with  *)
(* exactly the two sources.                                                *)
(***************************************************************************)
sameWordsFolded(i, j) ==
    LET W == longWords(keyOf(googleTrends[j]))
        with == {k \in DOMAIN candidates : longWords(candidates[k].key) = W}
    IN  /\ with # {}
        /\ \A k \in with : candidates[k].val.sources[1] = "reddit"
        /\ LET c == candidates[Min(with)].val
           IN  /\ {"reddit", "google_trends"} \subseteq Range(c.sources)
               /\ \E r \in Range(redditCandidates) : c.reddit_divisiveness = r.divisiveness_score
               /\ \E g \in Range(googleTrends) : c.google_score = g.score
        /\ (Len(redditCandidates) = 1 /\ Len(googleTrends) = 1 /\ youtubeCandidates = <<>>)
           => /\ Len(candidates) = 1
              /\ candidates[1].val.sources = <<"reddit", "google_trends">>
              /\ candidates[1].val.reddit_divisiveness = redditCandidates[1].divisiveness_score
              /\ candidates[1].val.google_score = googleTrends[1].score

C6_SameWordsOneCluster_Original ==
    pc = "done" =>
        \A i \in DOMAIN redditCandidates, j \in DOMAIN googleTrends :
            longWords(keyOf(redditCandidates[i])) = longWords(keyOf(googleTrends[j]))
            => sameWordsFolded(i, j)

C6_SameWordsOneCluster ==
    pc = "done" =>
        \A i \in DOMAIN redditCandidates, j \in DOMAIN googleTrends :
            (/\ longWords(keyOf(googleTrends[j])) # {}
             /\ longWords(keyOf(redditCandidates[i])) = longWords(keyOf(googleTrends[j])))
            => sameWordsFolded(i, j)

\* "Aaaa Bbbb" from reddit and "bbbb aaaa!" from trends, merged and ranked
C6_Witness ==
    /\ pc = "done"
    /\ Len(redditCandidates) = 1 /\ redditCandidates[1].title = tAB
    /\ Len(googleTrends) = 1 /\ googleTrends[1].title = tBA
    /\ youtubeCandidates = <<>>
    /\ Len(ranked) = 1
    /\ ranked[1].sources = <<"reddit", "google_trends">>

(***************************************************************************)
(* C7: findBestMatch accepts an entry only above 0.4: an entry sharing     *)
(* exactly 2 of 5 long words with the key (overlap 0.4) is never returned, *)
(* an entry sharing 3 of 5 is returned when it is the only entry, and      *)
(* whatever is returned has an overlap strictly above 0.4.                 *)
(***************************************************************************)
sharedWith(k) == Cardinality(longWords(mKey) \cap longWords(mMap[k].key))
denWith(k) ==
    Max({Cardinality(longWords(mKey)), Cardinality(longWords(mMap[k].key)), 1})

C7_StrictThreshold ==
    mPc = "done" =>
        /\ \A k \in DOMAIN mMap :
              /\ (sharedWith(k) = 2 /\ denWith(k) = 5) => mResult # k
              /\ (sharedWith(k) = 3 /\ denWith(k) = 5 /\ Len(mMap) = 1) => mResult = k
        /\ mResult # 0 => 5 * sharedWith(mResult) > 2 * denWith(mResult)

\* a pool of an entry at exactly 0.4 followed by one at 0.6: the second is returned
C7_Witness ==
    /\ mPc = "done"
    /\ Len(mMap) = 2
    /\ sharedWith(1) = 2 /\ denWith(1) = 5
    /\ sharedWith(2) = 3 /\ denWith(2) = 5
    /\ mResult = 2

(***************************************************************************)
(* C8: findBestMatch returns the first inserted of the entries whose       *)
(* overlap is maximal among those above 0.4, and none when no entry is     *)
(* above 0.4.                                                              *)
(***************************************************************************)
C8_BestFirstInserted ==
    mPc = "done" =>
        LET above == {k \in DOMAIN mMap : 5 * sharedWith(k) > 2 * denWith(k)}
            best == {k \in above :
                        \A j \in above : sharedWith(k) * denWith(j) >= sharedWith(j) * denWith(k)}
        IN  IF above = {} THEN mResult = 0 ELSE mResult = Min(best)

\* two entries tie at the maximal overlap and the first inserted is returned
C8_Witness ==
    /\ mPc = "done"
    /\ Len(mMap) = 2
    /\ 5 * sharedWith(1) > 2 * denWith(1)
    /\ sharedWith(1) * denWith(2) = sharedWith(2) * denWith(1)
    /\ mResult = 1

(***************************************************************************)
(* C9: a candidate whose title has no long word creates a new cluster of   *)
(* its own: the pool grows by one entry and every entry that was there     *)
(* stays as it was.                                                        *)
(***************************************************************************)
C9_DegenerateCreatesCluster ==
    [][(foldStep /\ longWords(normalizeTitle(currentTitle)) = {})
         => /\ Len(candidates') = Len(candidates) + 1
            /\ SubSeq(candidates', 1, Len(candidates)) = candidates]_vars

(***************************************************************************)
(* C2: at most one published topic exists for a date, whatever the         *)
(* interleaving of the runDailyPipeline invocations for that date.         *)
(***************************************************************************)
C2_OneTopicPerDate ==
    \A a, b \in DOMAIN topics :
        (/\ topics[a].date = topics[b].date
         /\ topics[a].status = "published" /\ topics[b].status = "published")
        => a = b

(***************************************************************************)
(* C10: once a cluster is in the pool, folding later candidates never      *)
(* changes its title.                                                      *)
(***************************************************************************)
C10_TitleFirstWins ==
    [][\A k \in DOMAIN candidates :
          /\ k \in DOMAIN candidates'
          /\ candidates'[k].val.title = candidates[k].val.title]_vars

(***************************************************************************)
(* C11: every cluster of the pool, and every entry of the returned list,   *)
(* holds a defined number in each per-source slot; the slots of a source   *)
(* that did not contribute hold 0, and the composite score of a cluster    *)
(* that only the trends source contributed to is computed with 0 for the   *)
(* discussion terms.                                                       *)
(***************************************************************************)
slotsDefined(c) ==
    /\ isNumber(c.reddit_divisiveness) /\ isNumber(c.reddit_comments)
    /\ isNumber(c.google_score) /\ isNumber(c.youtube_divisiveness)
    /\ "reddit" \notin Range(c.sources) => (c.reddit_divisiveness = 0 /\ c.reddit_comments = 0)
    /\ "google_trends" \notin Range(c.sources) => c.google_score = 0
    /\ "youtube" \notin Range(c.sources) => c.youtube_divisiveness = 0

C11_SlotsDefined ==
    /\ \A k \in DOMAIN candidates : slotsDefined(candidates[k].val)
    /\ \A k \in DOMAIN ranked :
          /\ slotsDefined(ranked[k])
          /\ isNumber(ranked[k].composite_score)
          /\ Range(ranked[k].sources) = {"google_trends"}
             => ranked[k].composite_score =
                  750 * ranked[k].google_score + 20000 * MinOf(Len(ranked[k].sources), 3)

\* a returned cluster that one trends candidate of score 90 made alone
C11_Witness ==
    /\ pc = "done"
    /\ \E k \in DOMAIN ranked :
          /\ ranked[k].sources = <<"google_trends">>
          /\ ranked[k].reddit_divisiveness = 0 /\ ranked[k].youtube_divisiveness = 0
          /\ ranked[k].google_score = 90
          /\ ranked[k].composite_score = 87500

(***************************************************************************)
(* C12: when a candidate lacks a numeric field, every cluster of the       *)
(* returned list still has a defined numeric composite score.              *)
(***************************************************************************)
C12_MissingFieldIsZero ==
    pc = "done" => \A k \in DOMAIN ranked : isNumber(ranked[k].composite_score)

(***************************************************************************)
(* C13: the returned list is ordered by non-increasing composite_score,    *)
(* has min(20, size of the pool) entries, each a cluster of the pool, and  *)
(* no cluster left out has a higher score than the last one returned.      *)
(***************************************************************************)
countIn(list, x) == Cardinality({k \in DOMAIN list : list[k] = x})

C13_SortedTop20 ==
    pc \in {"returned", "selectAwaitsModel"} =>
        LET sc == scoredOf(candidates)
            n == Len(ranked)
        IN  /\ n = MinOf(Len(sc), TopN)
            /\ \A i, j \in 1..n : i < j => ranked[i].composite_score >= ranked[j].composite_score
            /\ Range(ranked) \subseteq Range(sc)
            /\ \A x \in Range(sc) :
                  /\ countIn(ranked, x) <= countIn(sc, x)
                  /\ countIn(ranked, x) < countIn(sc, x)
                     => (n > 0 /\ x.composite_score <= ranked[n].composite_score)

\* a pool of more than 20 clusters of different scores, cut to 20
C13_Witness ==
    /\ pc = "returned"
    /\ Len(candidates) > TopN
    /\ Len(ranked) = TopN
    /\ ranked[1].composite_score > ranked[TopN].composite_score
    /\ scoredOf(candidates)[1].composite_score < ranked[TopN].composite_score

(***************************************************************************)
(* C14: two returned clusters with the same discussion divisiveness, the   *)
(* same video divisiveness, the same trends score and the same             *)
(* min(sources / 3, 1) have the same composite score.                      *)
(***************************************************************************)
C14_FourTermComposite ==
    pc = "returned" =>
        \A a, b \in Range(ranked) :
            (/\ a.reddit_divisiveness = b.reddit_divisiveness
             /\ a.youtube_divisiveness = b.youtube_divisiveness
             /\ a.google_score = b.google_score
             /\ MinOf(Len(a.sources), 3) = MinOf(Len(b.sources), 3))
            => a.composite_score = b.composite_score

(***************************************************************************)
(* C15: with three empty lists, mergeSignals and selectTopic end without   *)
(* an error and with an empty ranked list.                                 *)
(***************************************************************************)
C15_EmptyInputEmptyRanking ==
    (/\ pc # "call"
     /\ redditCandidates = <<>> /\ googleTrends = <<>> /\ youtubeCandidates = <<>>)
    => (pc # "selectThrew" /\ ranked = <<>>)

(***************************************************************************)
(* C16: two executions of mergeSignals on the same lists return the same   *)
(* ordered list: same clusters, slots, sources, scores and order.          *)
(***************************************************************************)
sameArguments(c, d) ==
    /\ calls[c].reddit = calls[d].reddit
    /\ calls[c].google = calls[d].google
    /\ calls[c].youtube = calls[d].youtube

poolAlone(call) ==
    LET r == foldLoop("reddit", <<>>, call.reddit, 1)
        g == foldLoop("google_trends", r, call.google, 1)
    IN  CASE call.pc = "reddit" ->
               foldLoop("reddit", <<>>, SubSeq(call.reddit, 1, call.idx - 1), 1)
          [] call.pc = "google" ->
               foldLoop("google_trends", r, SubSeq(call.google, 1, call.idx - 1), 1)
          [] call.pc = "youtube" ->
               foldLoop("youtube", g, SubSeq(call.youtube, 1, call.idx - 1), 1)
          [] OTHER -> foldLoop("youtube", g, call.youtube, 1)

C18_NoSharedState ==
    /\ [](\A c \in Callers :
            /\ calls[c].pool = poolAlone(calls[c])
            /\ calls[c].pc = "done"
               => calls[c].ranked = mergeSignals(calls[c].reddit, calls[c].google, calls[c].youtube))
    /\ [][\A c \in Callers :
            /\ calls'[c].reddit = calls[c].reddit
            /\ calls'[c].google = calls[c].google
            /\ calls'[c].youtube = calls[c].youtube]_vars

\* both calls are in their trends loop, with pools that differ
C18_Witness ==
    /\ calls["a"].pc = "google" /\ calls["b"].pc = "google"
    /\ calls["a"].idx = 2 /\ calls["b"].idx = 2
    /\ calls["a"].pool # <<>> /\ calls["b"].pool # <<>>
    /\ calls["a"].pool # calls["b"].pool

(***************************************************************************)
(* C17: a scraper whose promise rejected contributes the empty list; the   *)
(* run goes on to the selection with the lists of the others (the ranked   *)
(* selection when one of them is not empty, the direct one otherwise), and *)
(* the step that takes the scrapers' results never ends the run with       *)
(* status error nor logs an error.                                         *)
(***************************************************************************)
listOfSource(run, src) ==
    CASE src = "reddit" -> run.reddit
      [] src = "google_trends" -> run.google
      [] src = "youtube" -> run.youtube

C17_RejectedScraperIsEmptyList ==
    /\ [](\A p \in DOMAIN runs :
            runs[p].pc = "selecting" =>
               /\ \A src \in runs[p].rejected : listOfSource(runs[p], src) = <<>>
               /\ runs[p].mode =
                    IF runs[p].reddit = <<>> /\ runs[p].google = <<>> /\ runs[p].youtube = <<>>
                    THEN "direct" ELSE "ranked")
    /\ [][\A p \in DOMAIN runs :
            runs[p].pc = "scraping" =>
               /\ runs'[p].pc \in {"scraping", "selecting", "done"}
               /\ runs'[p].pc = "done" => (runs'[p].result = "skipped" /\ topicExistsForDate(runs[p].date))
               /\ runs'[p].pc = "selecting" => runLog' = runLog]_vars

\* the discussion scraper rejected, the trends scraper returned a candidate,
\* and the run awaits the model's choice among the ranked clusters
C17_Witness ==
    \E p \in DOMAIN runs :
        /\ runs[p].pc = "selecting"
        /\ runs[p].rejected = {"reddit"}
        /\ runs[p].reddit = <<>>
        /\ runs[p].google = <<gTop>>
        /\ runs[p].mode = "ranked"

(***************************************************************************)
(* C19: a request to an admin route whose Authorization header is not      *)
(* exactly "Bearer " followed by a set ADMIN_SECRET is answered 503 when   *)
(* the secret is unset and 401 otherwise, and it changes no table and      *)
(* starts no pipeline run; a request that is answered otherwise carried    *)
(* exactly that header.                                                    *)
(***************************************************************************)
handled == request'.seq = request.seq + 1

authorized ==
    /\ adminSecret # <<>>
    /\ request'.authorization = <<"B","e","a","r","e","r"," ">> \o adminSecret

C20_OtherEndpointsReadOnly ==
    [][(handled /\ ~(request'.method = "POST" /\ request'.path = adminPath("run-daily")))
         => UNCHANGED dbVars]_vars

(***************************************************************************)
(* The published topic of a date is a snapshot                             *)
(***************************************************************************)
\* a published topic row of the date is in the table
publishedFor(date) ==
    \E k \in DOMAIN topics : topics[k].date = date /\ topics[k].status = "published"

\* C21: once a published topic exists for a date, a runDailyPipeline invocation
\* that starts for that date returns 'skipped' at once, appends one 'skipped'
\* row to run_log and leaves topics, trend_signals, polls and arguments as
\* they were.
C21_PublishedDateIsSkipped ==
    [][\A p \in DOMAIN runs :
         (p \in DOMAIN runs' /\ runs[p].pc = "idle" /\ runs'[p].pc # "idle"
            /\ publishedFor(runs'[p].date))
         => /\ runs'[p].pc = "done" /\ runs'[p].result = "skipped"
            /\ runLog' = Append(runLog, [run_date |-> runs'[p].date,
                                          status |-> "skipped", topic_id |-> 0])
            /\ UNCHANGED <<topics, trendSignals, polls, arguments, nextTopicId>>]_vars

\* a run built the topic of a date, polls and arguments included, and the run
\* after it for the same date was skipped
C21_Witness ==
    /\ Len(runs) >= 2
    /\ runs[1].result = "success" /\ runs[2].result = "skipped"
    /\ runs[1].date = runs[2].date
    /\ \E k \in DOMAIN polls : polls[k].topic_id = runs[1].topicId
    /\ \E k \in DOMAIN arguments : arguments[k].topic_id = runs[1].topicId
    /\ Len(runLog) = 2 /\ runLog[1].status = "success" /\ runLog[2].status = "skipped"

(***************************************************************************)
(* The trends slot                                                         *)
(***************************************************************************)
\* x clamped to the model's 0..100, which stands for [0,1]
clamped(x) == IF x < 0 THEN 0 ELSE IF x > 100 THEN 100 ELSE x

\* C22: the trends slot of a cluster is never below 0 or above 1, and the step
\* that folds a trends candidate stores its raw score divided by 100, which is
\* the clamped value, in the cluster it folds the candidate into.
C22_TrendsSlotInUnitInterval ==
    /\ [](\A k \in DOMAIN candidates :
            candidates[k].val.google_score >= 0 /\ candidates[k].val.google_score <= 100)
    /\ [][(pc = "google" /\ idx' = idx + 1)
          => \E k \in DOMAIN candidates' :
               /\ candidates'[k].val.sources[Len(candidates'[k].val.sources)] = "google_trends"
               /\ k \in DOMAIN candidates => candidates'[k] # candidates[k]
               /\ candidates'[k].val.google_score = clamped(googleTrends[idx].score)]_vars

\* a trends candidate whose feed volume is above the cap has been folded, into
\* a cluster the reddit loop had made
C22_Witness ==
    /\ pc = "youtube"
    /\ \E i \in DOMAIN googleTrends : googleTrends[i].score = 100 /\ googleTrends[i].title = tAB
    /\ \E k \in DOMAIN candidates :
         /\ candidates[k].val.sources = <<"reddit", "google_trends">>
         /\ candidates[k].val.google_score = 100

(***************************************************************************)
(* The scrapers' scoring functions                                         *)
(***************************************************************************)
\* the call of function f has returned
returned(f) == fnPc = "returned" /\ fn = f

\* C23: the video divisiveness is 0 when view_count is 0, otherwise
\* min(comment_count / view_count * 1000, 1): a fraction in [0,1] that is 1
\* whenever comment_count * 1000 >= view_count (50 comments on 1000 views) and
\* 1/2 for 50 comments on 100000 views.
C23_VideoDivisiveness ==
    returned("videoDivisiveness") =>
        LET v == parseStat(fnArgs.viewCount)
            c == parseStat(fnArgs.commentCount)
            d == fnResult
        IN  /\ d.den > 0 /\ d.num >= 0 /\ d.num <= d.den
            /\ v = 0 => d.num = 0
            /\ (v > 0 /\ c * 1000 >= v) => d.num = d.den
            /\ (v > 0 /\ c * 1000 < v) => d = [num |-> c * 1000, den |-> v]
            /\ (c = 50 /\ v = 1000) => d.num = d.den
            /\ (c = 50 /\ v = 100000) => 2 * d.num = d.den

\* the divisiveness of a video with 50 comments on 100000 views is one half
C23_Witness ==
    /\ returned("videoDivisiveness")
    /\ fnArgs.viewCount = 100000 /\ fnArgs.commentCount = 50
    /\ 2 * fnResult.num = fnResult.den

\* scoreDivisiveness of the post of the call with another upvote_ratio
atRatio(r) == scoreDivisiveness([fnArgs EXCEPT !.upvote_ratio = r])

\* C24: with comment count and raw score fixed, scoreDivisiveness is maximal
\* at upvote_ratio 0.5, is smaller the farther the ratio is from 0.5 on either
\* side, and its ratio term is 1 at 0.5 and 0 at ratios 0 and 1 (a difference
\* of the term's whole weight, 0.6).
C24_RatioTermPeaksAtHalf ==
    (returned("scoreDivisiveness") /\ isNumber(fnArgs.upvote_ratio)) =>
        /\ fnResult <= atRatio(50)
        /\ \A r \in Ratios \ {Undefined} :
             absFromHalf(r) > absFromHalf(fnArgs.upvote_ratio) => atRatio(r) < fnResult
        /\ fnArgs.upvote_ratio \in {0, 100} => atRatio(50) - fnResult = 600
        /\ fnArgs.upvote_ratio = 50 => fnResult - atRatio(0) = 600

\* the score of a post with upvote_ratio 1, 99 comments and raw score 50: the
\* ratio term is 0, the engagement term 0.5 * 0.3 and the score term 0.5 * 0.1
C24_Witness ==
    /\ returned("scoreDivisiveness")
    /\ fnArgs = [upvote_ratio |-> 100, num_comments |-> 99, score |-> 50]
    /\ fnResult = 200

\* a key of lower-case letters, digits and single spaces, none at either end
cleanKey(key) ==
    /\ \A k \in DOMAIN key : key[k] \in LowerSet \cup DigitSet \cup {" "}
    /\ \A k \in 1..(Len(key) - 1) : ~(key[k] = " " /\ key[k + 1] = " ")
    /\ key # <<>> => key[1] # " " /\ key[Len(key)] # " "

\* C25: for every title, the key the normalizer returns is lower-case, holds
\* only letters a-z, digits and single spaces, and has no whitespace run of
\* two or more and no whitespace at either end.
C25_KeyIsClean ==
    (returned("topicSelector.normalizeTitle") \/ returned("redditScraper.normalizeTitle"))
        => cleanKey(fnResult)

(***************************************************************************)
(* The fact-checker feed cache                                             *)
(***************************************************************************)
\* C26: the feed cache is scoped to one run: a buildClaimTree call that starts
\* after an earlier call has finished requests the feeds again (it does not
\* go on with the feeds the earlier run fetched).
C26_FeedsLoadedEveryRun ==
    [][(Len(treeCalls') = Len(treeCalls) + 1 /\ treeCalls # <<>>)
       => treeCalls'[Len(treeCalls')].pc = "loading"]_vars

(***************************************************************************)
(* The run log                                                             *)
(***************************************************************************)
\* the run_log row of a finished invocation
rowOf(run) ==
    [run_date |-> run.date, status |-> run.result,
     topic_id |-> IF run.result = "success" THEN run.topicId ELSE 0]

\* the invocations that finish in the step
finishing == {p \in DOMAIN runs : p \in DOMAIN runs' /\ runs[p].pc # "done" /\ runs'[p].pc = "done"}

\* C27: every runDailyPipeline invocation that terminates writes exactly one
\* run_log row, for its date, whose status is its outcome: 'skipped' when it
\* returns skipped, 'success' with the id of the new topic when it returns
\* success, 'error' when it throws; and no row is written otherwise.
C27_OneLogRowPerRun ==
    /\ [](Len(runLog) = Cardinality({p \in DOMAIN runs : runs[p].pc = "done"}))
    /\ [][/\ \A p \in finishing :
               /\ runs'[p].result \in {"skipped", "success", "error"}
               /\ runLog' = Append(runLog, rowOf(runs'[p]))
               /\ runs'[p].result = "success"
                    => \E k \in DOMAIN topics' : /\ topics'[k].id = runs'[p].topicId
                                                  /\ topics'[k].date = runs'[p].date
          /\ finishing = {} => runLog' = runLog]_vars

\* one invocation threw and another built a topic: two rows, one each
C27_Witness ==
    /\ \A p \in DOMAIN runs : runs[p].pc = "done"
    /\ \E p, q \in DOMAIN runs : runs[p].result = "error" /\ runs[q].result = "success"
    /\ Len(runLog) = 2
    /\ \E k \in DOMAIN runLog : runLog[k].status = "error" /\ runLog[k].topic_id = 0
    /\ \E k \in DOMAIN runLog : runLog[k].status = "success" /\ runLog[k].topic_id = 1

\* C28: when buildTopic throws after insertTopic (the polling or the claim tree
\* step rejects), the run is logged 'error' and the rows written so far stay:
\* the topic remains published for the date; no step removes or changes a
\* topic row; and a runDailyPipeline started later for that date is skipped.
C28_FailedBuildStaysPublished ==
    /\ [][\A p \in DOMAIN runs :
            (p \in DOMAIN runs' /\ runs[p].pc \in {"polling", "claims"}
               /\ runs'[p].pc = "done" /\ runs'[p].result = "error")
            => /\ runLog' = Append(runLog, [run_date |-> runs[p].date, status |-> "error",
                                             topic_id |-> 0])
               /\ UNCHANGED <<topics, trendSignals, polls, arguments>>
               /\ \E k \in DOMAIN topics' : /\ topics'[k].id = runs[p].topicId
                                             /\ topics'[k].date = runs[p].date
                                             /\ topics'[k].status = "published"]_vars
    /\ [][\A k \in DOMAIN topics : k \in DOMAIN topics' /\ topics'[k] = topics[k]]_vars
    /\ [][\A p \in DOMAIN runs :
            (p \in DOMAIN runs' /\ runs[p].pc = "idle" /\ runs'[p].pc # "idle"
               /\ \E q \in DOMAIN runs, k \in DOMAIN topics :
                    /\ runs[q].result = "error" /\ runs[q].date = runs'[p].date
                    /\ topics[k].date = runs'[p].date /\ topics[k].status = "published")
            => runs'[p].pc = "done" /\ runs'[p].result = "skipped"]_vars

\* the first run inserted the topic and then failed before any argument was
\* written; the second run for the date was skipped
C28_Witness ==
    /\ Len(runs) >= 2
    /\ runs[1].result = "error" /\ runs[2].result = "skipped"
    /\ runs[1].date = runs[2].date
    /\ Len(topics) = 1 /\ topics[1].date = runs[1].date /\ topics[1].status = "published"
    /\ arguments = <<>>
    /\ Len(runLog) = 2 /\ runLog[1].status = "error" /\ runLog[2].status = "skipped"

(***************************************************************************)
(* The backfill loop                                                       *)
(***************************************************************************)
\* the dates from start_date to end_date in ascending order
rangeOf(b) == [k \in 1..b.days |-> dateStr(b.start) + k - 1]

\* C29: when the backfill loop has ended it has handled every date from
\* start_date to end_date exactly once, in ascending order, and succeeded +
\* skipped + failed equals the number of days announced in the response.
C29_BackfillHandlesEveryDate ==
    backfill.pc = "finished" =>
        /\ backfill.handled = rangeOf(backfill)
        /\ backfill.succeeded + backfill.skipped + backfill.failed = backfill.days

(***************************************************************************)
(* The empty ranking                                                       *)
(***************************************************************************)
\* C30: mergeSignals returns an empty list exactly when its three lists are
\* empty; so selectTopic throws 'No topic candidates found from any source'
\* only on three empty lists, with which runDailyPipeline never calls it, and
\* on any other lists it goes on to the model with a non-empty ranking.
C30_EmptyOnlyForEmptyInput ==
    /\ pc = "returned" => (ranked = <<>> <=> totalInputs = 0)
    /\ pc = "selectThrew" => totalInputs = 0
    /\ pc = "selectAwaitsModel" => (ranked # <<>> /\ totalInputs > 0)

\* the only candidate is a video whose title normalizes to the empty key: the
\* ranking has one cluster and selectTopic goes on to the model
C30_Witness ==
    /\ pc = "selectAwaitsModel"
    /\ redditCandidates = <<>> /\ googleTrends = <<>>
    /\ Len(youtubeCandidates) = 1 /\ normalizeTitle(youtubeCandidates[1].title) = <<>>
    /\ Len(ranked) = 1

====
